---- MODULE Spec2Model ----
(***************************************************************************)
(* A model of the multilayer transfer-matrix composite of optika:          *)
(* Layer, LayerSequence and PeriodicLayerSequence (materials/_layers.py).  *)
(*                                                                         *)
(* Transfer matrices are kept symbolic: a matrix is the sequence of the    *)
(* refraction and propagation factors whose product it is, every factor    *)
(* recording the arguments it was built from.  The matrix product is       *)
(* concatenation and the identity matrix is the empty sequence, so two     *)
(* matrices are equal here only if they are the same product of the same   *)
(* factors, which makes them equal as complex 2x2 matrices too.            *)
(*                                                                         *)
(* Python values: None is [tag |-> "None"], a length is                    *)
(* [tag |-> "Quantity", nm |-> v], a raised exception is                   *)
(* [tag |-> "TypeError"].                                                  *)
(***************************************************************************)
EXTENDS Integers, Sequences, FiniteSets, TLC

VARIABLES
    layers,   \* the layer objects constructed so far, in stacking order
    profile,  \* the interface profile object constructed last
    sensor,   \* the sensor material object constructed last
    call,     \* the most recent method call: its receiver and arguments
    result    \* what that call returned

vars == <<layers, profile, sensor, call, result>>

-----------------------------------------------------------------------------
(* Bounds of the model *)

\* the largest number of objects (leaves and composites) alive at once
MaxNodes == 3
\* the largest num_periods given to PeriodicLayerSequence
MaxPeriods == 3
\* the largest exponent the matrix-power laws are evaluated at
MaxExponent == 4
\* the largest number of binary digits, less one, of the num_periods of a
\* periodic sequence whose operations are counted
MaxRepeatDigits == 4
\* the largest length of the lists xs, ys and zs a nested sequence is built of
MaxListLen == 2
\* the largest width of an interface profile, in nm
MaxWidth == 2
\* the largest depth |z| a profile is evaluated at, in nm
MaxDepth == 4
\* the largest wavelength a profile is evaluated at, in nm
MaxWavelength == 4
\* the largest denominator of an end point of an interval that holds an
\* inexact value; an end point of a larger one is moved outwards to a
\* multiple of 1 / Precision
Precision == 100

-----------------------------------------------------------------------------
(* Python values *)

NoneValue == [tag |-> "None"]
Quantity(v) == [tag |-> "Quantity", nm |-> v]
TypeError == [tag |-> "TypeError"]

IsQuantity(x) == x.tag = "Quantity"

RECURSIVE GCD(_, _)
GCD(a, b) == IF b = 0 THEN a ELSE GCD(b, a % b)

\* A direction is the sine of the angle to the normal, an exact fraction.
Fraction(num, den) ==
    LET g == GCD(num, den)
    IN  [num |-> num \div g, den |-> den \div g]

Complex(re, im) == [re |-> re, im |-> im]

\* the one element of a set of one element: { f(v) : v \in {e} } computes e
\* once, before f uses it
Only(S) == CHOOSE v \in S : TRUE
\* the complex number (re + im * 1j) / den
ComplexFraction(re, im, den) == [re |-> re, im |-> im, den |-> den]

\* The interface profiles; width is in nm and is 0 if it is not given.
ErfInterfaceProfile(width) == [type |-> "ErfInterfaceProfile", width |-> width]
ExponentialInterfaceProfile(width) == [type |-> "ExponentialInterfaceProfile", width |-> width]
LinearInterfaceProfile(width) == [type |-> "LinearInterfaceProfile", width |-> width]
SinusoidalInterfaceProfile(width) == [type |-> "SinusoidalInterfaceProfile", width |-> width]

-----------------------------------------------------------------------------
(* Inputs *)

\* The layers a designer constructs: vacuum with no thickness given, a layer
\* with an interface profile of the default width, and a layer given a
\* negative thickness.
LayerInputs ==
    { [chemical |-> "None", thickness |-> NoneValue,    interface |-> NoneValue],
      [chemical |-> "Si",   thickness |-> Quantity(2),  interface |-> LinearInterfaceProfile(0)],
      [chemical |-> "Mo",   thickness |-> Quantity(-1), interface |-> ErfInterfaceProfile(1)] }

NumPeriodsInputs == 0 .. MaxPeriods

\* 2^j
RECURSIVE TwoTo(_)
TwoTo(j) == IF j = 0 THEN 1 ELSE 2 * TwoTo(j - 1)

\* The numbers of periods of the periodic sequences whose operations are
\* counted: the powers of two, for which every binary digit of num_periods - 1
\* is 1, and their successors, for which only its first digit is.
RepeatInputs == { TwoTo(j) + d : j \in 0 .. MaxRepeatDigits, d \in {0, 1} }

\* The widths interface profiles are constructed with, the depths they are
\* evaluated at, and the wavelengths and directions (normal incidence, 60
\* degrees and grazing incidence) their reflectivity is evaluated at.
WidthInputs == -1 .. MaxWidth
DepthInputs == -MaxDepth .. MaxDepth
WavelengthInputs == 1 .. MaxWavelength
DirectionInputs == { [z |-> Fraction(0, 1)], [z |-> Fraction(1, 2)], [z |-> Fraction(1, 1)] }

\* The incident states a transfer is evaluated at.
TransferInputs ==
    { [wavelength |-> 1, direction |-> Fraction(0, 1), polarization |-> "s",
       n |-> Complex(1, 0), normal |-> "-z"],
      [wavelength |-> 2, direction |-> Fraction(1, 2), polarization |-> "p",
       n |-> Complex(1, 0), normal |-> "-z"],
      [wavelength |-> 1, direction |-> Fraction(1, 3), polarization |-> "p",
       n |-> Complex(2, 1), normal |-> "+z"],
      [wavelength |-> 2, direction |-> Fraction(2, 3), polarization |-> "s",
       n |-> Complex(3, 0), normal |-> "+z"] }

\* The ambient states, substrates and interface profiles the efficiency of a
\* stack is evaluated at: the index of the substrate is the fraction 3/2, the
\* profile is left out, an Erf profile, or a Linear profile of the default
\* width.
EfficiencyInputs ==
    { [wavelength |-> 1, direction |-> Fraction(0, 1), n |-> Complex(1, 0),
       n_substrate |-> ComplexFraction(3, 0, 2), normal |-> "-z",
       profile_interface |-> NoneValue],
      [wavelength |-> 2, direction |-> Fraction(1, 2), n |-> Complex(1, 0),
       n_substrate |-> ComplexFraction(3, 0, 2), normal |-> "-z",
       profile_interface |-> NoneValue],
      [wavelength |-> 1, direction |-> Fraction(0, 1), n |-> Complex(1, 0),
       n_substrate |-> ComplexFraction(3, 0, 2), normal |-> "-z",
       profile_interface |-> ErfInterfaceProfile(1)],
      [wavelength |-> 1, direction |-> Fraction(0, 1), n |-> Complex(1, 0),
       n_substrate |-> ComplexFraction(3, 0, 2), normal |-> "-z",
       profile_interface |-> LinearInterfaceProfile(0)] }

\* The wavelengths, in nm, the quantum yield is evaluated at: those of the
\* energies 1.12 eV, 3.65 eV and 7.30 eV, their neighbours, and some between.
QuantumYieldInputs ==
    { Fraction(1107, 1), Fraction(1108, 1), Fraction(1106, 1),
      Fraction(123984, 365), Fraction(340, 1), Fraction(339, 1),
      Fraction(123984, 730), Fraction(100, 1), Fraction(500, 1), Fraction(2000, 1) }

\* The measured quantum efficiencies a sensor material is constructed with,
\* each given by the parameters that fit it best: the thicknesses of the oxide
\* and of the implant in nm and the collection efficiency of the back surface.
MeasuredInputs ==
    { [thickness_oxide |-> Fraction(5, 1), thickness_implant |-> Fraction(23, 1),
       cce_backsurface |-> Fraction(1, 5)],
      [thickness_oxide |-> Fraction(4, 1), thickness_implant |-> Fraction(20, 1),
       cce_backsurface |-> Fraction(1, 4)] }

\* The rays that fall on a sensor: in vacuum, at the sines 0, 1/2 and 3/5 of
\* the angle to the normal of the surface.
RayInputs ==
    { [wavelength |-> wavelength, direction |-> direction, index_refraction |-> 1,
       attenuation |-> 0] :
         wavelength \in WavelengthInputs,
         direction \in { Fraction(0, 1), Fraction(1, 2), Fraction(3, 5) } }

-----------------------------------------------------------------------------
(* Collaborators of the composite *)

\* optika.chemicals: the complex index of refraction of a chemical; None is vacuum.
Chemical_n(chemical, wavelength) ==
    CASE chemical = "None" -> Complex(1, 0)
      [] chemical = "Si"   -> Complex(1 + wavelength, wavelength - 1)
      [] chemical = "Mo"   -> Complex(2 + wavelength, 1)

\* optika.materials.snells_law: index * sin(angle) is preserved across the boundary.
snells_law(wavelength, direction, index_refraction, index_refraction_new, normal) ==
    Fraction(index_refraction * direction.num, index_refraction_new * direction.den)

\* optika.materials.matrices.refraction: the boundary matrix, one symbolic factor.
refraction(wavelength, direction_left, direction_right, polarization, n_left, n_right, normal, interface) ==
    << [kind |-> "refraction",
        wavelength |-> wavelength,
        direction_left |-> direction_left,
        direction_right |-> direction_right,
        polarization |-> polarization,
        n_left |-> n_left,
        n_right |-> n_right,
        normal |-> normal,
        interface |-> interface] >>

\* optika.materials.matrices.propagation: the phase matrix, one symbolic factor.
propagation(wavelength, direction, thickness, n, normal) ==
    << [kind |-> "propagation",
        wavelength |-> wavelength,
        direction |-> direction,
        thickness |-> thickness,
        n |-> n,
        normal |-> normal] >>

\* na.Cartesian2dIdentityMatrixArray()
Cartesian2dIdentityMatrixArray == << >>

\* the @ operator of two matrices
matmul(a, b) == a \o b

\* named_arrays: the loop of exponentiation by squaring, one binary digit of
\* the exponent per step.
RECURSIVE power_loop(_, _, _)
power_loop(acc, base, exponent) ==
    IF exponent = 0
    THEN acc
    ELSE power_loop(IF exponent % 2 = 1 THEN matmul(acc, base) ELSE acc,
                    matmul(base, base),
                    exponent \div 2)

\* Variant of power whose loop multiplies on the zero digits of the exponent
\* instead of the one digits.
RECURSIVE power_wrong_digit_loop(_, _, _)
power_wrong_digit_loop(acc, base, exponent) ==
    IF exponent = 0
    THEN acc
    ELSE power_wrong_digit_loop(IF exponent % 2 = 0 THEN matmul(acc, base) ELSE acc,
                                matmul(base, base),
                                exponent \div 2)

power_wrong_digit(self, exponent) ==
    IF exponent < 0
    THEN << [kind |-> "power", base |-> self, exponent |-> exponent] >>
    ELSE power_wrong_digit_loop(Cartesian2dIdentityMatrixArray, self, exponent)

\* named_arrays: matrix.power(exponent). A negative exponent is outside the
\* stated domain and stays a symbolic factor.
power(self, exponent) ==
    IF exponent < 0
    THEN << [kind |-> "power", base |-> self, exponent |-> exponent] >>
    ELSE power_loop(Cartesian2dIdentityMatrixArray, self, exponent)

\* astropy: Quantity + x, which raises TypeError unless x is a Quantity
add(a, b) ==
    IF IsQuantity(a) /\ IsQuantity(b) THEN Quantity(a.nm + b.nm) ELSE TypeError

\* astropy: int * x, which raises TypeError unless x is a Quantity
mul(k, a) ==
    IF IsQuantity(a) THEN Quantity(k * a.nm) ELSE TypeError

-----------------------------------------------------------------------------
(* The constructors: dataclass-generated __init__, which stores its arguments *)

Layer(chemical, thickness_, interface) ==
    [type |-> "Layer",
     chemical |-> chemical,
     thickness |-> thickness_,
     interface |-> interface]

LayerSequence(layers_) ==
    [type |-> "LayerSequence", layers |-> layers_]

PeriodicLayerSequence(layers_, num_periods) ==
    [type |-> "PeriodicLayerSequence", layers |-> layers_, num_periods |-> num_periods]

-----------------------------------------------------------------------------
(* thickness *)

RECURSIVE thickness(_)

Layer_thickness(self) == self.thickness

RECURSIVE LayerSequence_thickness_loop(_, _, _)
LayerSequence_thickness_loop(layers_, i, acc) ==
    IF i > Len(layers_)
    THEN acc
    ELSE LayerSequence_thickness_loop(layers_, i + 1, add(acc, thickness(layers_[i])))

\* Variant of LayerSequence.thickness that assigns instead of accumulating:
\* result = layer.thickness.
RECURSIVE LayerSequence_thickness_assign_loop(_, _, _)
LayerSequence_thickness_assign_loop(layers_, i, acc) ==
    IF i > Len(layers_)
    THEN acc
    ELSE LayerSequence_thickness_assign_loop(layers_, i + 1,
                                             add(Quantity(0), thickness(layers_[i])))

LayerSequence_thickness_assign(self) ==
    LayerSequence_thickness_assign_loop(self.layers, 1, Quantity(0))

LayerSequence_thickness(self) ==
    LayerSequence_thickness_loop(self.layers, 1, Quantity(0))

\* Variant of PeriodicLayerSequence.thickness that forgets the repetition.
PeriodicLayerSequence_thickness_one_period(self) ==
    LayerSequence_thickness(LayerSequence(self.layers))

PeriodicLayerSequence_thickness(self) ==
    mul(self.num_periods, LayerSequence_thickness(LayerSequence(self.layers)))

\* layer.thickness, dispatched on the class of the object
thickness(self) ==
    CASE self.type = "Layer" -> Layer_thickness(self)
      [] self.type = "LayerSequence" -> LayerSequence_thickness(self)
      [] self.type = "PeriodicLayerSequence" -> PeriodicLayerSequence_thickness(self)

-----------------------------------------------------------------------------
(* transfer *)

RECURSIVE transfer(_, _, _, _, _, _)

Layer_n(self, wavelength) == Chemical_n(self.chemical, wavelength)

\* Variant of Layer.transfer with the factors exchanged: propagation @ refraction.
Layer_transfer_propagation_first(self, wavelength, direction, polarization, n, normal) ==
    LET n_internal == Layer_n(self, wavelength)
        direction_internal ==
            snells_law(Fraction(wavelength, n.re), direction, n.re, n_internal.re, normal)
        refraction_ ==
            refraction(wavelength, direction, direction_internal, polarization,
                       n, n_internal, normal, self.interface)
        propagation_ ==
            propagation(wavelength, direction_internal, self.thickness, n_internal, normal)
    IN  [n |-> n_internal,
         direction |-> direction_internal,
         matrix |-> matmul(propagation_, refraction_)]

\* Variant of Layer.transfer that returns the index it was entered with
\* instead of its own.
Layer_transfer_incident_index(self, wavelength, direction, polarization, n, normal) ==
    LET n_internal == Layer_n(self, wavelength)
        direction_internal ==
            snells_law(Fraction(wavelength, n.re), direction, n.re, n_internal.re, normal)
        refraction_ ==
            refraction(wavelength, direction, direction_internal, polarization,
                       n, n_internal, normal, self.interface)
        propagation_ ==
            propagation(wavelength, direction_internal, self.thickness, n_internal, normal)
    IN  [n |-> n,
         direction |-> direction_internal,
         matrix |-> matmul(refraction_, propagation_)]

Layer_transfer(self, wavelength, direction, polarization, n, normal) ==
    LET n_internal == Layer_n(self, wavelength)
        direction_internal ==
            snells_law(Fraction(wavelength, n.re), direction, n.re, n_internal.re, normal)
        refraction_ ==
            refraction(wavelength, direction, direction_internal, polarization,
                       n, n_internal, normal, self.interface)
        propagation_ ==
            propagation(wavelength, direction_internal, self.thickness, n_internal, normal)
    IN  [n |-> n_internal,
         direction |-> direction_internal,
         matrix |-> matmul(refraction_, propagation_)]

RECURSIVE LayerSequence_transfer_loop(_, _, _, _, _, _, _, _)
LayerSequence_transfer_loop(layers_, i, wavelength, direction, polarization, n, normal, acc) ==
    IF i > Len(layers_)
    THEN [n |-> n, direction |-> direction, matrix |-> acc]
    ELSE LET r == transfer(layers_[i], wavelength, direction, polarization, n, normal)
         IN  LayerSequence_transfer_loop(layers_, i + 1, wavelength, r.direction,
                                         polarization, r.n, normal,
                                         matmul(acc, r.matrix))

\* Variant of LayerSequence.transfer that multiplies from the wrong side:
\* result = matrix_transfer @ result.
RECURSIVE LayerSequence_transfer_premultiply_loop(_, _, _, _, _, _, _, _)
LayerSequence_transfer_premultiply_loop(layers_, i, wavelength, direction, polarization, n, normal, acc) ==
    IF i > Len(layers_)
    THEN [n |-> n, direction |-> direction, matrix |-> acc]
    ELSE LET r == transfer(layers_[i], wavelength, direction, polarization, n, normal)
         IN  LayerSequence_transfer_premultiply_loop(layers_, i + 1, wavelength,
                                                     r.direction, polarization, r.n,
                                                     normal, matmul(r.matrix, acc))

LayerSequence_transfer_premultiply(self, wavelength, direction, polarization, n, normal) ==
    LayerSequence_transfer_premultiply_loop(self.layers, 1, wavelength, direction,
                                            polarization, n, normal,
                                            Cartesian2dIdentityMatrixArray)

\* Variant of LayerSequence.transfer that returns the n and the direction it
\* was entered with instead of those its last child returned.
LayerSequence_transfer_incident_state(self, wavelength, direction, polarization, n, normal) ==
    [n |-> n,
     direction |-> direction,
     matrix |-> LayerSequence_transfer_loop(self.layers, 1, wavelength, direction,
                                            polarization, n, normal,
                                            Cartesian2dIdentityMatrixArray).matrix]

\* Variant of LayerSequence.transfer whose accumulator starts as the zero
\* matrix instead of the identity.
LayerSequence_transfer_zero_start(self, wavelength, direction, polarization, n, normal) ==
    LayerSequence_transfer_loop(self.layers, 1, wavelength, direction, polarization,
                                n, normal, << [kind |-> "zero"] >>)

LayerSequence_transfer(self, wavelength, direction, polarization, n, normal) ==
    LayerSequence_transfer_loop(self.layers, 1, wavelength, direction, polarization,
                                n, normal, Cartesian2dIdentityMatrixArray)

\* Variant of PeriodicLayerSequence.transfer that evaluates the period once
\* and raises that first matrix to the power.
PeriodicLayerSequence_transfer_reuse_start(self, wavelength, direction, polarization, n, normal) ==
    LET period == LayerSequence(self.layers)
        start == LayerSequence_transfer(period, wavelength, direction, polarization, n, normal)
    IN  [n |-> start.n,
         direction |-> start.direction,
         matrix |-> matmul(start.matrix, power(start.matrix, self.num_periods - 1))]

\* Variant of PeriodicLayerSequence.transfer whose exponent is num_periods.
PeriodicLayerSequence_transfer_exponent_off_by_one(self, wavelength, direction, polarization, n, normal) ==
    LET period == LayerSequence(self.layers)
        start == LayerSequence_transfer(period, wavelength, direction, polarization, n, normal)
        periodic == LayerSequence_transfer(period, wavelength, start.direction,
                                           polarization, start.n, normal)
    IN  [n |-> periodic.n,
         direction |-> periodic.direction,
         matrix |-> matmul(start.matrix, power(periodic.matrix, self.num_periods))]

\* Variant of PeriodicLayerSequence.transfer whose second evaluation of the
\* period is made with the other polarization.
PeriodicLayerSequence_transfer_other_polarization(self, wavelength, direction, polarization, n, normal) ==
    LET period == LayerSequence(self.layers)
        start == LayerSequence_transfer(period, wavelength, direction, polarization, n, normal)
        periodic == LayerSequence_transfer(period, wavelength, start.direction,
                                           IF polarization = "s" THEN "p" ELSE "s",
                                           start.n, normal)
    IN  [n |-> periodic.n,
         direction |-> periodic.direction,
         matrix |-> matmul(start.matrix, power(periodic.matrix, self.num_periods - 1))]

PeriodicLayerSequence_transfer(self, wavelength, direction, polarization, n, normal) ==
    LET period == LayerSequence(self.layers)
        start == LayerSequence_transfer(period, wavelength, direction, polarization, n, normal)
        periodic == LayerSequence_transfer(period, wavelength, start.direction,
                                           polarization, start.n, normal)
    IN  [n |-> periodic.n,
         direction |-> periodic.direction,
         matrix |-> matmul(start.matrix, power(periodic.matrix, self.num_periods - 1))]

\* layer.transfer(...), dispatched on the class of the object
transfer(self, wavelength, direction, polarization, n, normal) ==
    CASE self.type = "Layer" ->
            Layer_transfer(self, wavelength, direction, polarization, n, normal)
      [] self.type = "LayerSequence" ->
            LayerSequence_transfer(self, wavelength, direction, polarization, n, normal)
      [] self.type = "PeriodicLayerSequence" ->
            PeriodicLayerSequence_transfer(self, wavelength, direction, polarization, n, normal)

-----------------------------------------------------------------------------
(* The operations of one evaluation of transfer: the same walk as transfer,    *)
(* which counts the matrix products and the calls of transfer of each child    *)
(* of the receiver instead of forming the matrices.                            *)

RECURSIVE transfer_count(_)

\* the loop of matrix.power: one squaring for every binary digit of the
\* exponent and one more product for every digit that is 1
RECURSIVE power_loop_count(_)
power_loop_count(exponent) ==
    IF exponent = 0
    THEN 0
    ELSE (IF exponent % 2 = 1 THEN 1 ELSE 0) + 1 + power_loop_count(exponent \div 2)

power_count(exponent) ==
    IF exponent < 0 THEN 0 ELSE power_loop_count(exponent)

\* Layer.transfer: refraction @ propagation, no child
Layer_transfer_count(self) ==
    [matmuls |-> 1, children |-> << >>]

\* LayerSequence.transfer: for every child one call of its transfer and one
\* product result @ matrix_transfer
RECURSIVE LayerSequence_transfer_count_loop(_, _, _)
LayerSequence_transfer_count_loop(layers_, i, acc) ==
    IF i > Len(layers_)
    THEN acc
    ELSE LayerSequence_transfer_count_loop(
             layers_, i + 1,
             [matmuls |-> acc.matmuls + transfer_count(layers_[i]).matmuls + 1,
              children |-> [acc.children EXCEPT ![i] = @ + 1]])

LayerSequence_transfer_count(self) ==
    LayerSequence_transfer_count_loop(self.layers, 1,
                                      [matmuls |-> 0,
                                       children |-> [i \in 1 .. Len(self.layers) |-> 0]])

\* Variant of PeriodicLayerSequence.transfer that evaluates the period once
\* for every period and multiplies the matrices one after the other.
PeriodicLayerSequence_transfer_count_unrolled(self) ==
    LET period == LayerSequence_transfer_count(LayerSequence(self.layers))
    IN  [matmuls |-> self.num_periods * (period.matmuls + 1),
         children |-> [i \in 1 .. Len(self.layers) |->
                          self.num_periods * period.children[i]]]

\* PeriodicLayerSequence.transfer: two evaluations of the period, which is a
\* LayerSequence of the same children, one power and one product
PeriodicLayerSequence_transfer_count(self) ==
    LET start == LayerSequence_transfer_count(LayerSequence(self.layers))
        periodic == LayerSequence_transfer_count(LayerSequence(self.layers))
    IN  [matmuls |-> start.matmuls + periodic.matmuls
                     + power_count(self.num_periods - 1) + 1,
         children |-> [i \in 1 .. Len(self.layers) |->
                          start.children[i] + periodic.children[i]]]

transfer_count(self) ==
    CASE self.type = "Layer" -> Layer_transfer_count(self)
      [] self.type = "LayerSequence" -> LayerSequence_transfer_count(self)
      [] self.type = "PeriodicLayerSequence" -> PeriodicLayerSequence_transfer_count(self)

-----------------------------------------------------------------------------
(* Real numbers                                                               *)
(*                                                                            *)
(* The interface profiles compute with floating-point reals.  A value is      *)
(* kept exact where the arithmetic allows it, as a monomial                   *)
(* c * pi^pi_exp * a^a_exp * sqrt(rad) with c an exact fraction and a the     *)
(* constant pi / (pi^2 - 8) of the sinusoidal profile; otherwise it is an     *)
(* interval that holds the value.  Every finite value carries the end points  *)
(* lo and hi of an interval that holds it.  nan and +-inf are numpy's,        *)
(* "unknown" is a value about which nothing is known.  Every value remembers  *)
(* in div0 whether a division by zero took part in computing it.              *)

\* exact fractions in lowest terms with a positive denominator
Rat(num, den) == IF den < 0 THEN Fraction(-num, -den) ELSE Fraction(num, den)
RatAdd(p, q) == Rat(p.num * q.den + q.num * p.den, p.den * q.den)
RatMul(p, q) == Rat(p.num * q.num, p.den * q.den)
RatNeg(p) == [num |-> -p.num, den |-> p.den]
RatInv(p) == Rat(p.den, p.num)
RatLess(p, q) == p.num * q.den < q.num * p.den
RatFloor(p) == p.num \div p.den

RECURSIVE RatPow(_, _)
RatPow(p, e) ==
    IF e = 0 THEN Rat(1, 1)
    ELSE IF e < 0 THEN RatPow(RatInv(p), -e)
    ELSE RatMul(p, RatPow(p, e - 1))

\* an end point of an interval: its value, and whether it is left out
End(v, open) == [v |-> v, open |-> open]

\* an end point of a denominator above Precision moved down, and up, to the
\* next multiple of 1 / Precision
RoundDown(e) ==
    IF e.v.den <= Precision
    THEN e
    ELSE End(Rat(RatFloor(e.v) * Precision
                     + ((e.v.num - RatFloor(e.v) * e.v.den) * Precision) \div e.v.den,
                 Precision),
             TRUE)
RoundUp(e) ==
    IF e.v.den <= Precision
    THEN e
    ELSE End(Rat(RatFloor(e.v) * Precision
                     + ((e.v.num - RatFloor(e.v) * e.v.den) * Precision) \div e.v.den + 1,
                 Precision),
             TRUE)

\* 25/8 < pi < 22/7
Enclosure_pi == [lo |-> Rat(25, 8), hi |-> Rat(22, 7)]
\* 5/3 < pi / (pi^2 - 8) < 17/10
Enclosure_a == [lo |-> Rat(5, 3), hi |-> Rat(17, 10)]
\* 7/5 < sqrt(2) < 17/12, 19/11 < sqrt(3) < 7/4, 22/9 < sqrt(6) < 5/2
Enclosure_sqrt(rad) ==
    CASE rad = 1 -> [lo |-> Rat(1, 1), hi |-> Rat(1, 1)]
      [] rad = 2 -> [lo |-> Rat(7, 5), hi |-> Rat(17, 12)]
      [] rad = 3 -> [lo |-> Rat(19, 11), hi |-> Rat(7, 4)]
      [] rad = 6 -> [lo |-> Rat(22, 9), hi |-> Rat(5, 2)]

\* the bounds of e^k for a positive e between e.lo and e.hi
EnclosurePow(e, k) ==
    IF k >= 0
    THEN [lo |-> RatPow(e.lo, k), hi |-> RatPow(e.hi, k)]
    ELSE [lo |-> RatPow(e.hi, k), hi |-> RatPow(e.lo, k)]

\* the bounds of the product of two positive numbers, and of c times a
\* positive number
EnclosureMul(e, f) == [lo |-> RatMul(e.lo, f.lo), hi |-> RatMul(e.hi, f.hi)]
EnclosureScale(c, e) ==
    IF c.num > 0
    THEN [lo |-> RoundDown(End(RatMul(c, e.lo), TRUE)),
          hi |-> RoundUp(End(RatMul(c, e.hi), TRUE))]
    ELSE [lo |-> RoundDown(End(RatMul(c, e.hi), TRUE)),
          hi |-> RoundUp(End(RatMul(c, e.lo), TRUE))]

\* the bounds of a monomial that is not a fraction
EnclosureOf(c, pi_exp, a_exp, rad) ==
    Only({ EnclosureScale(c, EnclosureMul(e, Enclosure_sqrt(rad))) :
           e \in { EnclosureMul(p, a) : p \in {EnclosurePow(Enclosure_pi, pi_exp)},
                                        a \in {EnclosurePow(Enclosure_a, a_exp)} } })

\* a fraction
Point(c) ==
    [tag |-> "exact", c |-> c, pi_exp |-> 0, a_exp |-> 0, rad |-> 1,
     lo |-> End(c, FALSE), hi |-> End(c, FALSE), div0 |-> FALSE]
\* a monomial with the bounds e
Monomial(c, pi_exp, a_exp, rad, e) ==
    [tag |-> "exact", c |-> c, pi_exp |-> pi_exp, a_exp |-> a_exp, rad |-> rad,
     lo |-> e.lo, hi |-> e.hi, div0 |-> FALSE]

Exact(c, pi_exp, a_exp, rad) ==
    IF c.num = 0 \/ (pi_exp = 0 /\ a_exp = 0 /\ rad = 1)
    THEN Point(c)
    ELSE Only({ Monomial(c, pi_exp, a_exp, rad, e) : e \in {EnclosureOf(c, pi_exp, a_exp, rad)} })

Rational(num, den) == Point(Rat(num, den))
NaN == [tag |-> "nan", div0 |-> FALSE]
Inf(sign) == [tag |-> "inf", sign |-> sign, div0 |-> FALSE]
Unknown == [tag |-> "unknown", div0 |-> FALSE]

Interval(lo, hi) ==
    IF lo.v = hi.v
    THEN Point(lo.v)
    ELSE [tag |-> "interval", lo |-> RoundDown(lo), hi |-> RoundUp(hi), div0 |-> FALSE]

With(x, div0) == [x EXCEPT !.div0 = div0]

IsFinite(x) == x.tag \in {"exact", "interval"}
IsRational(x) == x.tag = "exact" /\ x.pi_exp = 0 /\ x.a_exp = 0 /\ x.rad = 1
IsExactly(x, num, den) == IsRational(x) /\ x.c = Rat(num, den)

\* np.pi
np_pi == Exact(Rat(1, 1), 1, 0, 1)
\* np.sqrt of 2 and of 3
np_sqrt(rad) == Exact(Rat(1, 1), 0, 0, rad)

\* what is known of the sign of a value
IsZero(x) == x.tag = "exact" /\ x.c.num = 0
IsPositive(x) == IsFinite(x) /\ (x.lo.v.num > 0 \/ (x.lo.v.num = 0 /\ x.lo.open))
IsNegative(x) == IsFinite(x) /\ (x.hi.v.num < 0 \/ (x.hi.v.num = 0 /\ x.hi.open))

\* every value of x is at most every value of y
IsAtMost(x, y) ==
    \/ x.tag = "inf" /\ x.sign < 0 /\ y.tag \in {"exact", "interval", "inf"}
    \/ y.tag = "inf" /\ y.sign > 0 /\ x.tag \in {"exact", "interval", "inf"}
    \/ IsFinite(x) /\ IsFinite(y) /\ (x = y \/ ~RatLess(y.lo.v, x.hi.v))

\* end points of the product and of the hull of two intervals
EndMul(a, b) ==
    End(RatMul(a.v, b.v),
        ~((~a.open /\ ~b.open) \/ (a.v.num = 0 /\ ~a.open) \/ (b.v.num = 0 /\ ~b.open)))
EndMin(a, b) ==
    IF RatLess(a.v, b.v) THEN a
    ELSE IF RatLess(b.v, a.v) THEN b
    ELSE End(a.v, a.open /\ b.open)
EndMax(a, b) ==
    IF RatLess(a.v, b.v) THEN b
    ELSE IF RatLess(b.v, a.v) THEN a
    ELSE End(a.v, a.open /\ b.open)

\* the interval from the least to the greatest of four end points
Hull(p, q, r, s) ==
    Interval(EndMin(EndMin(p, q), EndMin(r, s)), EndMax(EndMax(p, q), EndMax(r, s)))

\* the sum and the product of two finite values, as intervals
IntervalAdd(x, y) ==
    Interval(End(RatAdd(x.lo.v, y.lo.v), x.lo.open \/ y.lo.open),
             End(RatAdd(x.hi.v, y.hi.v), x.hi.open \/ y.hi.open))
IntervalMul(x, y) ==
    Hull(EndMul(x.lo, y.lo), EndMul(x.lo, y.hi), EndMul(x.hi, y.lo), EndMul(x.hi, y.hi))
\* the bounds of 1 / y for a finite y of one sign whose end points are not zero
IntervalInv(y) ==
    [lo |-> End(RatInv(y.hi.v), y.hi.open), hi |-> End(RatInv(y.lo.v), y.lo.open)]

\* the product of two monomials, and the reciprocal of one
ExactMul(x, y) ==
    Exact(RatMul(RatMul(x.c, y.c), Rat(GCD(x.rad, y.rad), 1)),
          x.pi_exp + y.pi_exp, x.a_exp + y.a_exp,
          (x.rad * y.rad) \div (GCD(x.rad, y.rad) * GCD(x.rad, y.rad)))
ExactInv(y) ==
    Exact(RatInv(RatMul(y.c, Rat(y.rad, 1))), -y.pi_exp, -y.a_exp, y.rad)

\* x * y
np_multiply(x, y) ==
    With(IF x.tag = "nan" \/ y.tag = "nan" THEN NaN
         ELSE IF x.tag = "exact" /\ y.tag = "exact" THEN ExactMul(x, y)
         ELSE IF IsFinite(x) /\ IsFinite(y) THEN IntervalMul(x, y)
         ELSE IF x.tag = "inf" /\ y.tag = "inf" THEN Inf(x.sign * y.sign)
         ELSE IF x.tag = "inf" /\ IsZero(y) THEN NaN
         ELSE IF x.tag = "inf" /\ IsPositive(y) THEN Inf(x.sign)
         ELSE IF x.tag = "inf" /\ IsNegative(y) THEN Inf(-x.sign)
         ELSE IF y.tag = "inf" /\ IsZero(x) THEN NaN
         ELSE IF y.tag = "inf" /\ IsPositive(x) THEN Inf(y.sign)
         ELSE IF y.tag = "inf" /\ IsNegative(x) THEN Inf(-y.sign)
         ELSE Unknown,
         x.div0 \/ y.div0)

\* x / y
np_true_divide(x, y) ==
    With(IF x.tag = "nan" \/ y.tag = "nan" THEN NaN
         ELSE IF IsZero(y)
              THEN IF IsZero(x) THEN NaN
                   ELSE IF IsPositive(x) THEN Inf(1)
                   ELSE IF IsNegative(x) THEN Inf(-1)
                   ELSE IF x.tag = "inf" THEN Inf(x.sign)
                   ELSE Unknown
         ELSE IF x.tag = "exact" /\ y.tag = "exact" THEN ExactMul(x, ExactInv(y))
         ELSE IF IsFinite(x) /\ (IsPositive(y) \/ IsNegative(y))
                  /\ y.lo.v.num # 0 /\ y.hi.v.num # 0
              THEN IntervalMul(x, IntervalInv(y))
         ELSE IF IsFinite(x) /\ y.tag = "inf" THEN Rational(0, 1)
         ELSE IF x.tag = "inf" /\ IsPositive(y) THEN Inf(x.sign)
         ELSE IF x.tag = "inf" /\ IsNegative(y) THEN Inf(-x.sign)
         ELSE Unknown,
         x.div0 \/ y.div0 \/ IsZero(y))

\* x + y
np_add(x, y) ==
    With(IF x.tag = "nan" \/ y.tag = "nan" THEN NaN
         ELSE IF IsZero(x) THEN y
         ELSE IF IsZero(y) THEN x
         ELSE IF x.tag = "exact" /\ y.tag = "exact" /\ x.pi_exp = y.pi_exp
                  /\ x.a_exp = y.a_exp /\ x.rad = y.rad
              THEN Exact(RatAdd(x.c, y.c), x.pi_exp, x.a_exp, x.rad)
         ELSE IF IsFinite(x) /\ IsFinite(y) THEN IntervalAdd(x, y)
         ELSE IF x.tag = "inf" /\ y.tag = "inf"
              THEN IF x.sign = y.sign THEN Inf(x.sign) ELSE NaN
         ELSE IF x.tag = "inf" /\ IsFinite(y) THEN x
         ELSE IF y.tag = "inf" /\ IsFinite(x) THEN y
         ELSE Unknown,
         x.div0 \/ y.div0)

\* -x, x - y, x ** 2
np_negative(x) == np_multiply(Rational(-1, 1), x)
np_subtract(x, y) == np_add(x, np_negative(y))
np_square(x) == np_multiply(x, x)

\* np.sign
np_sign(x) ==
    With(IF IsZero(x) THEN Rational(0, 1)
         ELSE IF IsPositive(x) THEN Rational(1, 1)
         ELSE IF IsNegative(x) THEN Rational(-1, 1)
         ELSE IF x.tag = "inf" THEN Rational(x.sign, 1)
         ELSE IF x.tag = "nan" THEN NaN
         ELSE Unknown,
         x.div0)

\* np.minimum and np.maximum: the smaller and the larger operand, nan if
\* either is nan, and the hull of the two if they are not told apart
np_minimum(x, y) ==
    With(IF x.tag = "nan" \/ y.tag = "nan" THEN NaN
         ELSE IF IsAtMost(x, y) THEN x
         ELSE IF IsAtMost(y, x) THEN y
         ELSE IF IsFinite(x) /\ IsFinite(y)
              THEN Interval(EndMin(x.lo, y.lo), EndMin(x.hi, y.hi))
         ELSE Unknown,
         x.div0 \/ y.div0)
np_maximum(x, y) ==
    With(IF x.tag = "nan" \/ y.tag = "nan" THEN NaN
         ELSE IF IsAtMost(x, y) THEN y
         ELSE IF IsAtMost(y, x) THEN x
         ELSE IF IsFinite(x) /\ IsFinite(y)
              THEN Interval(EndMax(x.lo, y.lo), EndMax(x.hi, y.hi))
         ELSE Unknown,
         x.div0 \/ y.div0)

\* the intervals (0, 1), (0, 1], (-1, 0), [-1, 0), (-1, 1) and [-1, 1]
Within(lo, lo_open, hi, hi_open) ==
    [tag |-> "interval", lo |-> End(Rat(lo, 1), lo_open), hi |-> End(Rat(hi, 1), hi_open),
     div0 |-> FALSE]

\* np.exp: 1 at 0, inside (0, 1) below 0, above 1 above 0
np_exp(x) ==
    With(IF x.tag = "nan" THEN NaN
         ELSE IF x.tag = "inf" THEN (IF x.sign > 0 THEN Inf(1) ELSE Rational(0, 1))
         ELSE IF IsZero(x) THEN Rational(1, 1)
         ELSE IF IsNegative(x) THEN Within(0, TRUE, 1, TRUE)
         ELSE IF IsFinite(x) /\ x.hi.v.num <= 0 THEN Within(0, TRUE, 1, FALSE)
         ELSE Unknown,
         x.div0)

\* scipy.special.erf: odd, increasing, 0 at 0, inside (-1, 1), +-1 at +-inf
scipy_special_erf(x) ==
    With(IF x.tag = "nan" THEN NaN
         ELSE IF x.tag = "inf" THEN Rational(x.sign, 1)
         ELSE IF IsZero(x) THEN Rational(0, 1)
         ELSE IF IsPositive(x) THEN Within(0, TRUE, 1, TRUE)
         ELSE IF IsNegative(x) THEN Within(-1, TRUE, 0, TRUE)
         ELSE IF IsFinite(x) THEN Within(-1, TRUE, 1, TRUE)
         ELSE Unknown,
         x.div0)

\* np.sin of pi * t: 0, 1, 0, -1 at t = 0, 1/2, 1, 3/2 (mod 2); inside (0, 1]
\* for t between an even integer and the next integer, inside [-1, 0) for t
\* between an odd integer and the next
sin_pi(t) ==
    IF IsRational(t) /\ t.c.den \in {1, 2}
    THEN Rational(CASE ((2 * t.c.num) \div t.c.den) % 4 = 1 -> 1
                    [] ((2 * t.c.num) \div t.c.den) % 4 = 3 -> -1
                    [] OTHER -> 0,
                  1)
    ELSE IF /\ RatLess(Rat(RatFloor(t.lo.v), 1), t.lo.v) \/ t.lo.open
            /\ \/ RatLess(t.hi.v, Rat(RatFloor(t.lo.v) + 1, 1))
               \/ (t.hi.v = Rat(RatFloor(t.lo.v) + 1, 1) /\ t.hi.open)
         THEN IF RatFloor(t.lo.v) % 2 = 0
              THEN Within(0, TRUE, 1, FALSE)
              ELSE Within(-1, FALSE, 0, TRUE)
         ELSE Within(-1, FALSE, 1, FALSE)

\* np.sin
np_sin(x) ==
    With(IF x.tag \in {"nan", "inf"} THEN NaN
         ELSE IF IsFinite(x) THEN sin_pi(np_true_divide(x, np_pi))
         ELSE Unknown,
         x.div0)

-----------------------------------------------------------------------------
(* The interface profiles (materials/profiles.py).  Lengths are in nm; a     *)
(* direction is given by its z component, the cosine of the angle to the     *)
(* surface normal.                                                           *)

\* 4 * np.pi * direction.z / wavelength
ProfileS(wavelength, direction) ==
    np_true_divide(np_multiply(np_multiply(Rational(4, 1), np_pi), direction.z),
                   Rational(wavelength, 1))

ErfInterfaceProfile_call(self, z) ==
    LET width == Rational(self.width, 1)
        x == np_true_divide(Rational(z, 1), np_multiply(np_sqrt(2), width))
    IN  np_true_divide(np_add(Rational(1, 1), scipy_special_erf(x)), Rational(2, 1))

\* Variant of ErfInterfaceProfile.reflectivity without the minus sign in the
\* exponent.
ErfInterfaceProfile_reflectivity_growing(self, wavelength, direction) ==
    Only({ np_exp(np_true_divide(np_square(np_multiply(s, Rational(self.width, 1))),
                                 Rational(2, 1))) :
           s \in {ProfileS(wavelength, direction)} })

ErfInterfaceProfile_reflectivity(self, wavelength, direction) ==
    Only({ np_exp(np_true_divide(
                      np_negative(np_square(np_multiply(s, Rational(self.width, 1)))),
                      Rational(2, 1))) :
           s \in {ProfileS(wavelength, direction)} })

ExponentialInterfaceProfile_call(self, z) ==
    LET width == Rational(self.width, 1)
        sgn_z == np_sign(Rational(z, 1))
        x == np_true_divide(
                 np_multiply(np_multiply(np_negative(sgn_z), np_sqrt(2)), Rational(z, 1)),
                 width)
    IN  np_true_divide(
            np_subtract(np_add(Rational(1, 1), sgn_z), np_multiply(sgn_z, np_exp(x))),
            Rational(2, 1))

ExponentialInterfaceProfile_reflectivity(self, wavelength, direction) ==
    Only({ np_true_divide(
               Rational(1, 1),
               np_add(Rational(1, 1),
                      np_true_divide(np_square(np_multiply(s, Rational(self.width, 1))),
                                     Rational(2, 1)))) :
           s \in {ProfileS(wavelength, direction)} })

\* Variant of LinearInterfaceProfile.__call__ that returns the line unclamped.
LinearInterfaceProfile_call_unclamped(self, z) ==
    LET width == Rational(self.width, 1)
    IN  np_add(Rational(1, 2),
               np_true_divide(Rational(z, 1),
                              np_multiply(np_multiply(Rational(2, 1), np_sqrt(3)), width)))

LinearInterfaceProfile_call(self, z) ==
    LET width == Rational(self.width, 1)
        result_ == np_add(Rational(1, 2),
                          np_true_divide(
                              Rational(z, 1),
                              np_multiply(np_multiply(Rational(2, 1), np_sqrt(3)), width)))
    IN  np_minimum(Rational(1, 1), np_maximum(result_, Rational(0, 1)))

LinearInterfaceProfile_reflectivity(self, wavelength, direction) ==
    Only({ np_true_divide(np_sin(x), x) :
           x \in { np_multiply(np_multiply(np_sqrt(3), Rational(self.width, 1)), s) :
                   s \in {ProfileS(wavelength, direction)} } })

\* a = np.pi / (np.square(np.pi) - 8), kept as a symbol of its own
SinusoidalA == Exact(Rat(1, 1), 0, 1, 1)

SinusoidalInterfaceProfile_call(self, z) ==
    LET width == Rational(self.width, 1)
        a == SinusoidalA
        z_ == np_minimum(np_multiply(a, width),
                         np_maximum(Rational(z, 1), np_multiply(np_negative(a), width)))
    IN  np_add(Rational(1, 2),
               np_true_divide(
                   np_sin(np_true_divide(
                              np_multiply(np_pi, z_),
                              np_multiply(np_multiply(Rational(2, 1), a), width))),
                   Rational(2, 1)))

SinusoidalInterfaceProfile_reflectivity(self, wavelength, direction) ==
    Only({ Only({ np_true_divide(
                      np_multiply(np_pi,
                                  np_add(np_true_divide(np_sin(x1), x1),
                                         np_true_divide(np_sin(x2), x2))),
                      Rational(4, 1)) :
                  x1 \in {np_subtract(x, np_true_divide(np_pi, Rational(2, 1)))},
                  x2 \in {np_add(x, np_true_divide(np_pi, Rational(2, 1)))} }) :
           x \in { np_multiply(np_multiply(SinusoidalA, Rational(self.width, 1)), s) :
                   s \in {ProfileS(wavelength, direction)} } })

\* profile(z), dispatched on the class of the object
Profile_call(self, z) ==
    CASE self.type = "ErfInterfaceProfile" -> ErfInterfaceProfile_call(self, z)
      [] self.type = "ExponentialInterfaceProfile" -> ExponentialInterfaceProfile_call(self, z)
      [] self.type = "LinearInterfaceProfile" -> LinearInterfaceProfile_call(self, z)
      [] self.type = "SinusoidalInterfaceProfile" -> SinusoidalInterfaceProfile_call(self, z)

\* profile.reflectivity(wavelength, direction), dispatched on the class of the object
Profile_reflectivity(self, wavelength, direction) ==
    CASE self.type = "ErfInterfaceProfile" ->
            ErfInterfaceProfile_reflectivity(self, wavelength, direction)
      [] self.type = "ExponentialInterfaceProfile" ->
            ExponentialInterfaceProfile_reflectivity(self, wavelength, direction)
      [] self.type = "LinearInterfaceProfile" ->
            LinearInterfaceProfile_reflectivity(self, wavelength, direction)
      [] self.type = "SinusoidalInterfaceProfile" ->
            SinusoidalInterfaceProfile_reflectivity(self, wavelength, direction)

\* the largest r in 0 .. q with r * r <= m
IntegerSqrt(m, q) == CHOOSE r \in 0 .. q : r * r <= m /\ (r + 1) * (r + 1) > m

\* The z component of a direction of the layer stack, which is given by the
\* sine num / den of its angle to the normal: sqrt(den^2 - num^2) / den, a
\* fraction if den^2 - num^2 is a square and between two fractions if it is
\* not; beyond the critical angle it is complex, and nothing is known of it.
direction_z(direction) ==
    LET m == direction.den * direction.den - direction.num * direction.num
        r == IntegerSqrt(m, direction.den)
    IN  IF m < 0
        THEN Unknown
        ELSE Interval(End(Rat(r, direction.den), TRUE),
                      End(Rat(IF r * r = m THEN r ELSE r + 1, direction.den), TRUE))

\* optika.materials.matrices.refraction: the factor the interface profile of
\* the boundary scales the entries of the boundary matrix by, 1 without one
refraction_attenuation(factor) ==
    IF factor.interface = NoneValue
    THEN Rational(1, 1)
    ELSE Profile_reflectivity(factor.interface, factor.wavelength,
                              [z |-> direction_z(factor.direction_left)])

-----------------------------------------------------------------------------
(* The efficiency of a stack on a substrate (multilayer_efficiency).  The     *)
(* symbolic matrix of the stack is given its value where that value is real   *)
(* and exact: at normal incidence, for indices without an imaginary part and  *)
(* layers whose optical thickness is a multiple of half the wavelength.       *)
(* Everywhere else the entries are complex or transcendental and nothing is   *)
(* known of them.                                                             *)

\* a 2x2 matrix of numbers, and the product of two
Cartesian2dMatrixArray(xx, xy, yx, yy) == [xx |-> xx, xy |-> xy, yx |-> yx, yy |-> yy]
Cartesian2dMatrixArray_matmul(a, b) ==
    Cartesian2dMatrixArray(np_add(np_multiply(a.xx, b.xx), np_multiply(a.xy, b.yx)),
                           np_add(np_multiply(a.xx, b.xy), np_multiply(a.xy, b.yy)),
                           np_add(np_multiply(a.yx, b.xx), np_multiply(a.yy, b.yx)),
                           np_add(np_multiply(a.yx, b.xy), np_multiply(a.yy, b.yy)))
Cartesian2dMatrixArray_scaled(k, r) ==
    Cartesian2dMatrixArray(np_multiply(k, Rational(1, 1)), np_multiply(k, r),
                           np_multiply(k, r), np_multiply(k, Rational(1, 1)))

\* the real part of an index of refraction, which has integer parts for the
\* chemicals and parts that are fractions of one denominator for the substrate
IndexRe(n) == IF "den" \in DOMAIN n THEN Rational(n.re, n.den) ELSE Rational(n.re, 1)
IsRealIndex(n) == n.im = 0

\* The boundary matrix at normal incidence between two indices without an
\* imaginary part: [[1, r], [r, 1]] / t with the Fresnel coefficients
\* r = (n_left - n_right) / (n_left + n_right) and
\* t = 2 * n_left / (n_left + n_right), every entry scaled by the attenuation
\* of the interface profile.
refraction_value(factor) ==
    IF factor.direction_left.num = 0 /\ IsRealIndex(factor.n_left) /\ IsRealIndex(factor.n_right)
    THEN Only({ Cartesian2dMatrixArray_scaled(np_multiply(attenuation, k), r) :
                attenuation \in {refraction_attenuation(factor)},
                k \in {np_true_divide(np_add(IndexRe(factor.n_left),
                                             IndexRe(factor.n_right)),
                                      np_multiply(Rational(2, 1),
                                                  IndexRe(factor.n_left)))},
                r \in {np_true_divide(np_subtract(IndexRe(factor.n_left),
                                                  IndexRe(factor.n_right)),
                                      np_add(IndexRe(factor.n_left),
                                             IndexRe(factor.n_right)))} })
    ELSE Cartesian2dMatrixArray(Unknown, Unknown, Unknown, Unknown)

\* The phase matrix at normal incidence in a medium without absorption:
\* exp(+-i * pi * k) = (-1)^k on the diagonal if the phase 2 * pi * n * d /
\* wavelength is pi * k for an integer k.
propagation_value(factor) ==
    IF /\ factor.direction.num = 0
       /\ IsRealIndex(factor.n)
       /\ IsQuantity(factor.thickness)
       /\ (2 * factor.n.re * factor.thickness.nm) % factor.wavelength = 0
    THEN Cartesian2dMatrixArray_scaled(
             IF ((2 * factor.n.re * factor.thickness.nm) \div factor.wavelength) % 2 = 0
             THEN Rational(1, 1)
             ELSE Rational(-1, 1),
             Rational(0, 1))
    ELSE Cartesian2dMatrixArray(Unknown, Unknown, Unknown, Unknown)

\* the value of one factor of a symbolic matrix
factor_value(factor) ==
    CASE factor.kind = "refraction" -> refraction_value(factor)
      [] factor.kind = "propagation" -> propagation_value(factor)
      [] factor.kind = "zero" ->
            Cartesian2dMatrixArray(Rational(0, 1), Rational(0, 1), Rational(0, 1), Rational(0, 1))
      [] OTHER -> Cartesian2dMatrixArray(Unknown, Unknown, Unknown, Unknown)

\* the value of a symbolic matrix: the product of its factors in their
\* order, taken as the product of the values of its two halves
RECURSIVE matrix_value(_)
matrix_value(matrix) ==
    IF matrix = << >>
    THEN Cartesian2dMatrixArray(Rational(1, 1), Rational(0, 1), Rational(0, 1), Rational(1, 1))
    ELSE IF Len(matrix) = 1
    THEN factor_value(Head(matrix))
    ELSE Only({ Cartesian2dMatrixArray_matmul(a, b) :
                a \in {matrix_value(SubSeq(matrix, 1, Len(matrix) \div 2))},
                b \in {matrix_value(SubSeq(matrix, Len(matrix) \div 2 + 1, Len(matrix)))} })

\* The power coefficients of an amplitude matrix m with no wave entering from
\* beyond the substrate: r = m.yx / m.xx and t = 1 / m.xx, reflected = |r|^2,
\* transmitted = flux * |t|^2.
efficiency_of_matrix(m, flux) ==
    [reflected |-> np_square(np_true_divide(m.yx, m.xx)),
     transmitted |-> np_multiply(flux, np_square(np_true_divide(Rational(1, 1), m.xx)))]

\* Re(n_substrate * cos(substrate)) / Re(n_ambient * cos(ambient)) for real
\* directions
efficiency_flux(n_ambient, direction_ambient, n_substrate, direction_substrate) ==
    np_true_divide(np_multiply(IndexRe(n_substrate), direction_z(direction_substrate)),
                   np_multiply(IndexRe(n_ambient), direction_z(direction_ambient)))

\* the stack's matrix closed by the boundary between its last layer and the
\* substrate, for one polarization; inner is what the stack's transfer returned
efficiency_at_substrate(inner, direction_substrate, wavelength, direction, polarization, n, n_substrate, normal, profile_interface) ==
    Only({ efficiency_of_matrix(m, flux) :
           m \in {matrix_value(matmul(inner.matrix,
                                      refraction(wavelength, inner.direction,
                                                 direction_substrate, polarization,
                                                 inner.n, n_substrate, normal,
                                                 profile_interface)))},
           flux \in {efficiency_flux(n, direction, n_substrate, direction_substrate)} })

\* the direction in a substrate of index num / den behind a medium of index n:
\* Snell's law with both indices multiplied by den
efficiency_direction_substrate(inner, wavelength, n_substrate, normal) ==
    snells_law(Fraction(wavelength, inner.n.re), inner.direction,
               inner.n.re * n_substrate.den, n_substrate.re, normal)

efficiency_polarized(inner, wavelength, direction, polarization, n, n_substrate, normal, profile_interface) ==
    efficiency_at_substrate(inner,
                            efficiency_direction_substrate(inner, wavelength, n_substrate, normal),
                            wavelength, direction, polarization, n, n_substrate, normal,
                            profile_interface)

\* the mean of the coefficients of the two polarizations
efficiency_mean(s, p) ==
    [reflected |-> np_true_divide(np_add(s.reflected, p.reflected), Rational(2, 1)),
     transmitted |-> np_true_divide(np_add(s.transmitted, p.transmitted), Rational(2, 1))]

\* optika.materials.multilayer_efficiency
multilayer_efficiency(stack, wavelength, direction, n, n_substrate, normal, profile_interface) ==
    Only({ efficiency_mean(
               efficiency_polarized(inner_s, wavelength, direction, "s", n, n_substrate,
                                    normal, profile_interface),
               efficiency_polarized(inner_p, wavelength, direction, "p", n, n_substrate,
                                    normal, profile_interface)) :
           inner_s \in {transfer(stack, wavelength, direction, "s", n, normal)},
           inner_p \in {transfer(stack, wavelength, direction, "p", n, normal)} })

-----------------------------------------------------------------------------
(* The sensor materials (sensors/_materials/_materials.py).  Energies are in  *)
(* eV and wavelengths in nm, both exact fractions.                            *)

\* astropy.constants: h * c = 1239.84 eV nm
PlanckLightSpeed == Rat(123984, 100)

\* the bandgap energy of silicon, 1.12 eV, and the energy of an electron-hole
\* pair, 3.65 eV
energy_bandgap == Rat(112, 100)
energy_electron_hole == Rat(365, 100)

\* wavelength.to(u.eV, equivalencies=u.spectral()): the energy h * c / wavelength
spectral_eV(wavelength) == RatMul(PlanckLightSpeed, RatInv(wavelength))

\* np.where(condition, x, y)
np_where(condition, x, y) == IF condition THEN x ELSE y

\* optika.sensors.quantum_yield_ideal, in electrons per photon
quantum_yield_ideal(wavelength) ==
    LET energy == spectral_eV(wavelength)
    IN  np_where(RatLess(energy_bandgap, energy),
                 np_where(RatLess(energy_electron_hole, energy),
                          RatMul(energy, RatInv(energy_electron_hole)),
                          Rat(1, 1)),
                 Rat(0, 1))

\* optika.chemicals.Chemical.absorption: the absorption coefficient
\* 4 * pi * k / wavelength of a chemical, k the imaginary part of its index
Chemical_absorption(chemical, wavelength) ==
    np_true_divide(np_multiply(Rational(4 * Chemical_n(chemical, wavelength).im, 1), np_pi),
                   Rational(wavelength, 1))

\* optika.materials.snells_law_scalar: the cosine inside the new medium of a
\* ray that has the given cosine in the old one.  A cosine is given here by
\* the direction it is the cosine of, a direction by the sine of its angle to
\* the normal; index * sin(angle) is preserved across the boundary.
snells_law_scalar(cos_incidence, index_refraction, index_refraction_new) ==
    Fraction(index_refraction * cos_incidence.num, index_refraction_new * cos_incidence.den)

\* optika.sensors.charge_collection_efficiency
charge_collection_efficiency(absorption, thickness_implant, cce_backsurface, cos_incidence) ==
    Only({ Only({ np_add(cce_backsurface,
                         np_multiply(np_true_divide(np_subtract(Rational(1, 1), cce_backsurface),
                                                    z0),
                                     np_subtract(Rational(1, 1), exp_z0))) :
                  exp_z0 \in {np_exp(np_negative(z0))} }) :
           z0 \in {np_true_divide(np_multiply(absorption, thickness_implant), cos_incidence)} })

\* optika.sensors.absorbance(...).average: the fraction of the incident energy
\* the light-sensitive region absorbs
absorbance_average(wavelength, direction, n, thickness_oxide, thickness_substrate) ==
    Within(0, FALSE, 1, FALSE)

\* optika.sensors.quantum_efficiency_effective: the cosine it hands to
\* charge_collection_efficiency, that of the direction inside the substrate
quantum_efficiency_effective_direction_substrate(wavelength, direction, n) ==
    snells_law_scalar(direction, n.re, Chemical_n("Si", wavelength).re)

\* optika.sensors.quantum_efficiency_effective
quantum_efficiency_effective(wavelength, direction, n, thickness_oxide, thickness_implant, thickness_substrate, cce_backsurface, normal) ==
    Only({ np_multiply(absorbance_average(wavelength, direction, n, thickness_oxide,
                                          thickness_substrate),
                       cce) :
           cce \in {charge_collection_efficiency(
                        Chemical_absorption("Si", wavelength), thickness_implant,
                        cce_backsurface,
                        direction_z(quantum_efficiency_effective_direction_substrate(
                                        wavelength, direction, n)))} })

\* AbstractStern1994BackilluminatedCCDMaterial: an object with the measured
\* quantum efficiency and the thickness of the substrate it was constructed
\* with.  fit is the entry _quantum_efficiency_fit of its __dict__, None while
\* functools.cached_property has not stored it; fits counts the runs of
\* scipy.optimize.minimize for this object.
Stern1994Material(quantum_efficiency_measured, thickness_substrate) ==
    [quantum_efficiency_measured |-> quantum_efficiency_measured,
     thickness_substrate |-> thickness_substrate,
     fit |-> NoneValue,
     fits |-> 0]

\* scipy.optimize.minimize of the rms difference between the measured quantum
\* efficiency and quantum_efficiency_effective: the parameters of the best fit
scipy_optimize_minimize(qe_measured) ==
    [thickness_oxide |-> Rational(qe_measured.thickness_oxide.num,
                                  qe_measured.thickness_oxide.den),
     thickness_implant |-> Rational(qe_measured.thickness_implant.num,
                                    qe_measured.thickness_implant.den),
     cce_backsurface |-> Rational(qe_measured.cce_backsurface.num,
                                  qe_measured.cce_backsurface.den)]

\* The same property without functools.cached_property: every access runs
\* the fit.
Stern1994_quantum_efficiency_fit_property(self) ==
    [self EXCEPT !.fit = scipy_optimize_minimize(self.quantum_efficiency_measured),
                 !.fits = @ + 1]

\* AbstractStern1994BackilluminatedCCDMaterial._quantum_efficiency_fit, a
\* functools.cached_property: the object after an access to it
Stern1994_quantum_efficiency_fit(self) ==
    IF self.fit # NoneValue
    THEN self
    ELSE [self EXCEPT !.fit = scipy_optimize_minimize(self.quantum_efficiency_measured),
                      !.fits = @ + 1]

\* AbstractBackilluminatedCCDMaterial.charge_collection_efficiency: the cosine
\* it hands to charge_collection_efficiency, -rays.direction @ normal
Material_cos_incidence(rays, normal) == rays.direction

\* AbstractBackilluminatedCCDMaterial.charge_collection_efficiency, of an
\* object whose fit is stored
Material_charge_collection_efficiency(self, rays, normal) ==
    charge_collection_efficiency(Chemical_absorption("Si", rays.wavelength),
                                 self.fit.thickness_implant,
                                 self.fit.cce_backsurface,
                                 direction_z(Material_cos_incidence(rays, normal)))

\* the index n = rays.index_refraction + k * 1j of the medium the rays are in
Material_n(rays) ==
    [re |-> rays.index_refraction,
     im |-> np_true_divide(np_multiply(Rational(rays.attenuation, 1),
                                       Rational(rays.wavelength, 1)),
                           np_multiply(Rational(4, 1), np_pi))]

\* AbstractBackilluminatedCCDMaterial.quantum_efficiency_effective, of an
\* object whose fit is stored
Material_quantum_efficiency_effective(self, rays, normal) ==
    quantum_efficiency_effective(rays.wavelength, rays.direction, Material_n(rays),
                                 self.fit.thickness_oxide, self.fit.thickness_implant,
                                 self.thickness_substrate, self.fit.cce_backsurface, normal)

-----------------------------------------------------------------------------
(* The state machine: a designer constructs the layer objects, then calls     *)
(* their methods one call at a time.                                          *)

RECURSIVE Nodes(_)
RECURSIVE NodesOfAll(_)
\* the number of objects in a tree
Nodes(self) ==
    IF self.type = "Layer" THEN 1 ELSE 1 + NodesOfAll(self.layers)
NodesOfAll(layers_) ==
    IF layers_ = << >> THEN 0 ELSE Nodes(Head(layers_)) + NodesOfAll(Tail(layers_))

NoCall == [op |-> "none"]
NoResult == [tag |-> "none"]

\* layers with the elements i..j replaced by the one object x
Replace(layers_, i, j, x) ==
    SubSeq(layers_, 1, i - 1) \o << x >> \o SubSeq(layers_, j + 1, Len(layers_))

Init ==
    /\ layers = << >>
    /\ profile = NoneValue
    /\ sensor = NoneValue
    /\ call = NoCall
    /\ result = NoResult

\* Layer(chemical=..., thickness=..., interface=...)
Layer_init ==
    /\ call = NoCall
    /\ NodesOfAll(layers) < MaxNodes
    /\ \E a \in LayerInputs :
          layers' = Append(layers, Layer(a.chemical, a.thickness, a.interface))
    /\ UNCHANGED <<profile, sensor, call, result>>

\* LayerSequence(layers[i..j]); j = i - 1 gives LayerSequence([])
LayerSequence_init ==
    /\ call = NoCall
    /\ NodesOfAll(layers) < MaxNodes
    /\ \E i \in 1 .. Len(layers) + 1 : \E j \in i - 1 .. Len(layers) :
          layers' = Replace(layers, i, j, LayerSequence(SubSeq(layers, i, j)))
    /\ UNCHANGED <<profile, sensor, call, result>>

\* PeriodicLayerSequence(layers[i..j], num_periods)
PeriodicLayerSequence_init ==
    /\ call = NoCall
    /\ NodesOfAll(layers) < MaxNodes
    /\ \E i \in 1 .. Len(layers) + 1 : \E j \in i - 1 .. Len(layers) :
       \E num_periods \in NumPeriodsInputs :
          layers' = Replace(layers, i, j,
                            PeriodicLayerSequence(SubSeq(layers, i, j), num_periods))
    /\ UNCHANGED <<profile, sensor, call, result>>

\* Variant of the call of transfer in which a composite takes its children
\* off its list as it evaluates them, and is left with an empty list.
call_transfer_consuming ==
    /\ call = NoCall
    /\ \E i \in 1 .. Len(layers) :
       \E a \in TransferInputs :
          /\ call' = [op |-> "transfer",
                      self |-> layers[i],
                      wavelength |-> a.wavelength,
                      direction |-> a.direction,
                      polarization |-> a.polarization,
                      n |-> a.n,
                      normal |-> a.normal]
          /\ result' = transfer(layers[i], a.wavelength, a.direction, a.polarization,
                                a.n, a.normal)
          /\ layers' = [layers EXCEPT ![i] = IF @.type = "Layer"
                                             THEN @
                                             ELSE [@ EXCEPT !.layers = << >>]]
    /\ UNCHANGED <<profile, sensor>>

\* layers[i].transfer(wavelength, direction, polarization, n, normal)
call_transfer ==
    /\ call = NoCall
    /\ \E i \in 1 .. Len(layers) :
       \E a \in TransferInputs :
          /\ call' = [op |-> "transfer",
                      self |-> layers[i],
                      wavelength |-> a.wavelength,
                      direction |-> a.direction,
                      polarization |-> a.polarization,
                      n |-> a.n,
                      normal |-> a.normal]
          /\ result' = transfer(layers[i], a.wavelength, a.direction, a.polarization,
                                a.n, a.normal)
    /\ UNCHANGED <<layers, profile, sensor>>

\* layers[i].thickness
call_thickness ==
    /\ call = NoCall
    /\ \E i \in 1 .. Len(layers) :
          /\ call' = [op |-> "thickness", self |-> layers[i]]
          /\ result' = thickness(layers[i])
    /\ UNCHANGED <<layers, profile, sensor>>

\* the caller drops the value the last call returned and goes on
del_result ==
    /\ call # NoCall
    /\ call' = NoCall
    /\ result' = NoResult
    /\ UNCHANGED <<layers, profile, sensor>>

Next ==
    \/ Layer_init
    \/ LayerSequence_init
    \/ PeriodicLayerSequence_init
    \/ call_transfer
    \/ call_thickness
    \/ del_result

Spec == Init /\ [][Next]_vars

\* ErfInterfaceProfile(width=...)
ErfInterfaceProfile_init ==
    /\ call = NoCall
    /\ \E width \in WidthInputs : profile' = ErfInterfaceProfile(width)
    /\ UNCHANGED <<layers, sensor, call, result>>

\* ExponentialInterfaceProfile(width=...)
ExponentialInterfaceProfile_init ==
    /\ call = NoCall
    /\ \E width \in WidthInputs : profile' = ExponentialInterfaceProfile(width)
    /\ UNCHANGED <<layers, sensor, call, result>>

\* LinearInterfaceProfile(width=...)
LinearInterfaceProfile_init ==
    /\ call = NoCall
    /\ \E width \in WidthInputs : profile' = LinearInterfaceProfile(width)
    /\ UNCHANGED <<layers, sensor, call, result>>

\* SinusoidalInterfaceProfile(width=...)
SinusoidalInterfaceProfile_init ==
    /\ call = NoCall
    /\ \E width \in WidthInputs : profile' = SinusoidalInterfaceProfile(width)
    /\ UNCHANGED <<layers, sensor, call, result>>

\* profile(z)
call_profile ==
    /\ call = NoCall
    /\ profile # NoneValue
    /\ \E z \in DepthInputs :
          /\ call' = [op |-> "__call__", self |-> profile, z |-> z]
          /\ result' = Profile_call(profile, z)
    /\ UNCHANGED <<layers, profile, sensor>>

\* profile.reflectivity(wavelength, direction)
call_reflectivity ==
    /\ call = NoCall
    /\ profile # NoneValue
    /\ \E wavelength \in WavelengthInputs : \E direction \in DirectionInputs :
          /\ call' = [op |-> "reflectivity", self |-> profile,
                      wavelength |-> wavelength, direction |-> direction]
          /\ result' = Profile_reflectivity(profile, wavelength, [z |-> Point(direction.z)])
    /\ UNCHANGED <<layers, profile, sensor>>

\* the interface profiles alone: a designer constructs a profile and
\* evaluates it one call at a time
NextProfiles ==
    \/ ErfInterfaceProfile_init
    \/ ExponentialInterfaceProfile_init
    \/ LinearInterfaceProfile_init
    \/ SinusoidalInterfaceProfile_init
    \/ call_profile
    \/ call_reflectivity
    \/ del_result

SpecProfiles == Init /\ [][NextProfiles]_vars

\* multilayer_efficiency(layers[i], wavelength, direction, n, n_substrate,
\* normal, profile_interface)
call_multilayer_efficiency ==
    /\ call = NoCall
    /\ \E i \in 1 .. Len(layers) :
       \E a \in EfficiencyInputs :
          /\ call' = [op |-> "multilayer_efficiency",
                      self |-> layers[i],
                      wavelength |-> a.wavelength,
                      direction |-> a.direction,
                      n |-> a.n,
                      n_substrate |-> a.n_substrate,
                      normal |-> a.normal,
                      profile_interface |-> a.profile_interface]
          /\ result' = multilayer_efficiency(layers[i], a.wavelength, a.direction, a.n,
                                             a.n_substrate, a.normal, a.profile_interface)
    /\ UNCHANGED <<layers, profile, sensor>>

\* a designer stacks layers in sequences and evaluates the efficiency of a
\* stack on a substrate
NextEfficiency ==
    \/ Layer_init
    \/ LayerSequence_init
    \/ call_multilayer_efficiency
    \/ del_result

SpecEfficiency == Init /\ [][NextEfficiency]_vars

\* optika.sensors.quantum_yield_ideal(wavelength)
call_quantum_yield_ideal ==
    /\ call = NoCall
    /\ \E wavelength \in QuantumYieldInputs :
          /\ call' = [op |-> "quantum_yield_ideal", wavelength |-> wavelength]
          /\ result' = quantum_yield_ideal(wavelength)
    /\ UNCHANGED <<layers, profile, sensor>>

\* a concrete AbstractStern1994BackilluminatedCCDMaterial is constructed
Stern1994Material_init ==
    /\ call = NoCall
    /\ \E qe_measured \in MeasuredInputs :
          sensor' = Stern1994Material(qe_measured, Rational(7, 1))
    /\ UNCHANGED <<layers, profile, call, result>>

\* sensor.thickness_oxide, sensor.thickness_implant or sensor.cce_backsurface
get_fit_property ==
    /\ call = NoCall
    /\ sensor # NoneValue
    /\ \E name \in {"thickness_oxide", "thickness_implant", "cce_backsurface"} :
          /\ call' = [op |-> name, self |-> sensor]
          /\ sensor' = Stern1994_quantum_efficiency_fit(sensor)
          /\ result' = sensor'.fit[name]
    /\ UNCHANGED <<layers, profile>>

\* sensor.charge_collection_efficiency(rays, normal)
call_charge_collection_efficiency ==
    /\ call = NoCall
    /\ sensor # NoneValue
    /\ \E rays \in RayInputs :
          /\ call' = [op |-> "charge_collection_efficiency", self |-> sensor,
                      rays |-> rays, normal |-> "-z"]
          /\ sensor' = Stern1994_quantum_efficiency_fit(sensor)
          /\ result' = Material_charge_collection_efficiency(sensor', rays, "-z")
    /\ UNCHANGED <<layers, profile>>

\* sensor.quantum_efficiency_effective(rays, normal)
call_quantum_efficiency_effective ==
    /\ call = NoCall
    /\ sensor # NoneValue
    /\ \E rays \in RayInputs :
          /\ call' = [op |-> "quantum_efficiency_effective", self |-> sensor,
                      rays |-> rays, normal |-> "-z"]
          /\ sensor' = Stern1994_quantum_efficiency_fit(sensor)
          /\ result' = Material_quantum_efficiency_effective(sensor', rays, "-z")
    /\ UNCHANGED <<layers, profile>>

NextSensors ==
    \/ Stern1994Material_init
    \/ get_fit_property
    \/ call_charge_collection_efficiency
    \/ call_quantum_efficiency_effective
    \/ call_quantum_yield_ideal
    \/ del_result

SpecSensors == Init /\ [][NextSensors]_vars

\* PeriodicLayerSequence(layers[i..j], num_periods), of many periods
PeriodicLayerSequence_init_many ==
    /\ call = NoCall
    /\ NodesOfAll(layers) < MaxNodes
    /\ \E i \in 1 .. Len(layers) + 1 : \E j \in i - 1 .. Len(layers) :
       \E num_periods \in RepeatInputs :
          layers' = Replace(layers, i, j,
                            PeriodicLayerSequence(SubSeq(layers, i, j), num_periods))
    /\ UNCHANGED <<profile, sensor, call, result>>

\* layers[i].transfer(...), observed by the operations it performs
call_transfer_count ==
    /\ call = NoCall
    /\ \E i \in 1 .. Len(layers) :
          /\ call' = [op |-> "transfer_count", self |-> layers[i]]
          /\ result' = transfer_count(layers[i])
    /\ UNCHANGED <<layers, profile, sensor>>

NextCount ==
    \/ Layer_init
    \/ LayerSequence_init
    \/ PeriodicLayerSequence_init_many
    \/ call_transfer_count
    \/ del_result

SpecCount == Init /\ [][NextCount]_vars

\* The lists of layers a nested sequence is built of.
LayerLists ==
    UNION { [1 .. k -> { Layer(a.chemical, a.thickness, a.interface) : a \in LayerInputs }] :
            k \in 0 .. MaxListLen }

\* LayerSequence(xs + [LayerSequence(ys)] + zs), the one stack of a behaviour
LayerSequence_init_nested ==
    /\ call = NoCall
    /\ layers = << >>
    /\ \E xs \in LayerLists : \E ys \in LayerLists : \E zs \in LayerLists :
          layers' = << LayerSequence(xs \o << LayerSequence(ys) >> \o zs) >>
    /\ UNCHANGED <<profile, sensor, call, result>>

NextNesting ==
    \/ LayerSequence_init_nested
    \/ call_transfer
    \/ del_result

SpecNesting == Init /\ [][NextNesting]_vars

-----------------------------------------------------------------------------
(* Properties *)

\* Python's list * int: the list repeated k times, empty for k <= 0
RECURSIVE list_mul(_, _)
list_mul(layers_, k) ==
    IF k <= 0 THEN << >> ELSE layers_ \o list_mul(layers_, k - 1)

\* the receiver's transfer at the arguments of the recorded call
TransferAtCall(self) ==
    transfer(self, call.wavelength, call.direction, call.polarization, call.n, call.normal)

TransferReturned(type) == call.op = "transfer" /\ call.self.type = type
ThicknessReturned(type) == call.op = "thickness" /\ call.self.type = type

\* C1: for every period L, every num_periods k >= 1 and every incident state,
\* PeriodicLayerSequence(L, k).transfer returns the matrix, the exit index and
\* the exit direction that LayerSequence(L * k).transfer returns.
C1_PeriodicEqualsExplicit ==
    (TransferReturned("PeriodicLayerSequence") /\ call.self.num_periods >= 1)
        => result = TransferAtCall(
                        LayerSequence(list_mul(call.self.layers, call.self.num_periods)))

\* a periodic sequence of three periods of two different layers was evaluated
\* at oblique incidence
C1_Witness ==
    /\ TransferReturned("PeriodicLayerSequence")
    /\ call.self.num_periods >= 3
    /\ Len(call.self.layers) = 2
    /\ call.self.layers[1] # call.self.layers[2]
    /\ call.direction.num > 0
    /\ Len(result.matrix) >= 12

\* what child i of the called sequence returns, and the (n, direction) it is
\* called with: the incident state for the first child, the state the previous
\* child returned for every other
RECURSIVE ChildReturn(_)
ChildEntry(i) ==
    IF i = 1
    THEN [n |-> call.n, direction |-> call.direction]
    ELSE [n |-> ChildReturn(i - 1).n, direction |-> ChildReturn(i - 1).direction]
ChildReturn(i) ==
    transfer(call.self.layers[i], call.wavelength, ChildEntry(i).direction,
             call.polarization, ChildEntry(i).n, call.normal)

\* Mi @ ... @ Mm, and the identity past the last child
RECURSIVE ChildProduct(_)
ChildProduct(i) ==
    IF i > Len(call.self.layers)
    THEN Cartesian2dIdentityMatrixArray
    ELSE matmul(ChildReturn(i).matrix, ChildProduct(i + 1))

\* C2: LayerSequence.transfer over children c1..cm returns I @ M1 @ ... @ Mm in
\* stacking order, each child called with the (n, direction) the child before
\* it returned, and returns the (n, direction) of the last child.
C2_SequenceThreadsState ==
    (TransferReturned("LayerSequence") /\ call.self.layers # << >>)
        => /\ result.matrix = ChildProduct(1)
           /\ result.n = ChildReturn(Len(call.self.layers)).n
           /\ result.direction = ChildReturn(Len(call.self.layers)).direction

\* a sequence of two children with different matrices was evaluated, the
\* second entered in a state that differs from the incident one
C2_Witness ==
    /\ TransferReturned("LayerSequence")
    /\ Len(call.self.layers) >= 2
    /\ ChildReturn(1).matrix # ChildReturn(2).matrix
    /\ ChildReturn(1).matrix # << >>
    /\ ChildReturn(2).matrix # << >>
    /\ ChildEntry(2) # ChildEntry(1)

\* C3: LayerSequence.transfer on an empty list of layers returns the identity
\* matrix and the incident n and direction unchanged.
C3_EmptySequenceIsIdentity ==
    (TransferReturned("LayerSequence") /\ call.self.layers = << >>)
        => result = [n |-> call.n,
                     direction |-> call.direction,
                     matrix |-> Cartesian2dIdentityMatrixArray]

\* LayerSequence([]) was evaluated at oblique incidence from a medium that is
\* not vacuum
C3_Witness ==
    /\ TransferReturned("LayerSequence")
    /\ call.self.layers = << >>
    /\ call.direction.num > 0
    /\ call.n # Complex(1, 0)
    /\ result.matrix = << >>

\* C4: Layer.transfer returns (n_layer(wavelength), direction_internal,
\* Refraction @ Propagation): the refraction between the incident (n, direction)
\* and the layer's own (n_layer, direction_internal) with the layer's interface
\* profile, on the left; the propagation through the layer's own thickness at
\* its own index and internal direction, on the right.
C4_LayerIsRefractionThenPropagation ==
    TransferReturned("Layer")
        => /\ result.n = Chemical_n(call.self.chemical, call.wavelength)
           /\ result.direction =
                  snells_law(Fraction(call.wavelength, call.n.re), call.direction,
                             call.n.re, result.n.re, call.normal)
           /\ Len(result.matrix) = 2
           /\ result.matrix[1] =
                  [kind |-> "refraction",
                   wavelength |-> call.wavelength,
                   direction_left |-> call.direction,
                   direction_right |-> result.direction,
                   polarization |-> call.polarization,
                   n_left |-> call.n,
                   n_right |-> result.n,
                   normal |-> call.normal,
                   interface |-> call.self.interface]
           /\ result.matrix[2] =
                  [kind |-> "propagation",
                   wavelength |-> call.wavelength,
                   direction |-> result.direction,
                   thickness |-> call.self.thickness,
                   n |-> result.n,
                   normal |-> call.normal]

\* a layer with an interface profile was evaluated at oblique incidence and
\* bent the ray
C4_Witness ==
    /\ TransferReturned("Layer")
    /\ call.self.interface # NoneValue
    /\ call.direction.num > 0
    /\ result.direction # call.direction
    /\ result.n # call.n

\* the matrix PeriodicLayerSequence.transfer raises to the power: the period
\* evaluated from the state the first evaluation of the period returned
StartAtCall == TransferAtCall(LayerSequence(call.self.layers))
PeriodMatrixAtCall ==
    transfer(LayerSequence(call.self.layers), call.wavelength, StartAtCall.direction,
             call.polarization, StartAtCall.n, call.normal).matrix

\* the e-fold product m @ m @ ... @ m
RECURSIVE NaivePower(_, _)
NaivePower(m, e) ==
    IF e = 0 THEN Cartesian2dIdentityMatrixArray ELSE matmul(m, NaivePower(m, e - 1))

\* C5: the matrix power PeriodicLayerSequence.transfer uses, computed by
\* squaring over the binary digits of the exponent, equals the naive e-fold
\* product for every exponent e >= 0 and is the identity for e = 0, so that
\* the result is start @ P^(num_periods - 1) and num_periods = 1 yields
\* exactly the single-period matrix.
C5_PowerIsRepeatedProduct ==
    TransferReturned("PeriodicLayerSequence")
        => LET P == PeriodMatrixAtCall
               start == StartAtCall.matrix
           IN  /\ \A e \in 0 .. MaxExponent : power(P, e) = NaivePower(P, e)
               /\ power(P, 0) = Cartesian2dIdentityMatrixArray
               /\ call.self.num_periods >= 1
                     => result.matrix =
                            matmul(start, NaivePower(P, call.self.num_periods - 1))
               /\ call.self.num_periods = 1 => result.matrix = start

\* a periodic sequence of one period, whose period matrix is not the identity,
\* was evaluated
C5_Witness ==
    /\ TransferReturned("PeriodicLayerSequence")
    /\ call.self.num_periods = 1
    /\ Len(PeriodMatrixAtCall) >= 2
    /\ result.matrix = StartAtCall.matrix

\* C6: for any period matrix P and positive integers a and b,
\* power(P, a) @ power(P, b) equals power(P, a + b).
C6_PowerLaw ==
    TransferReturned("PeriodicLayerSequence")
        => LET P == PeriodMatrixAtCall
               powers == [e \in 1 .. 2 * MaxExponent |-> power(P, e)]
           IN  \A a, b \in 1 .. MaxExponent :
                  matmul(powers[a], powers[b]) = powers[a + b]

\* a periodic sequence was evaluated whose period matrix is a product of
\* four factors, the first unlike the last
C6_Witness ==
    /\ TransferReturned("PeriodicLayerSequence")
    /\ Len(PeriodMatrixAtCall) >= 4
    /\ PeriodMatrixAtCall[1] # PeriodMatrixAtCall[Len(PeriodMatrixAtCall)]
    /\ call.self.num_periods >= 2

\* the sum of the thicknesses of the children i.. of a list, in nm
RECURSIVE SumOfChildren(_, _)
SumOfChildren(layers_, i) ==
    IF i > Len(layers_)
    THEN 0
    ELSE thickness(layers_[i]).nm + SumOfChildren(layers_, i + 1)

\* the total thickness of the leaves of a tree, every period counted
\* num_periods times, in nm
RECURSIVE LeafTotal(_)
RECURSIVE LeafTotalOfAll(_)
LeafTotal(self) ==
    CASE self.type = "Layer" -> self.thickness.nm
      [] self.type = "LayerSequence" -> LeafTotalOfAll(self.layers)
      [] self.type = "PeriodicLayerSequence" -> self.num_periods * LeafTotalOfAll(self.layers)
LeafTotalOfAll(layers_) ==
    IF layers_ = << >>
    THEN 0
    ELSE LeafTotal(Head(layers_)) + LeafTotalOfAll(Tail(layers_))

ChildrenHaveThickness(layers_) ==
    \A i \in 1 .. Len(layers_) : IsQuantity(thickness(layers_[i]))

\* C7: LayerSequence.thickness equals the sum of the thicknesses of its
\* children in any nesting (leaves, nested sequences, periodic sequences), and
\* is zero for an empty sequence.
C7_SequenceThicknessIsSum ==
    ThicknessReturned("LayerSequence")
        => /\ call.self.layers = << >> => result = Quantity(0)
           /\ ChildrenHaveThickness(call.self.layers)
                 => /\ result = Quantity(SumOfChildren(call.self.layers, 1))
                    /\ result = Quantity(LeafTotal(call.self))

\* the thickness of a sequence was taken whose child is itself a composite
\* of non-zero thickness
C7_Witness ==
    /\ ThicknessReturned("LayerSequence")
    /\ call.self.layers # << >>
    /\ ChildrenHaveThickness(call.self.layers)
    /\ \E i \in 1 .. Len(call.self.layers) :
          /\ call.self.layers[i].type # "Layer"
          /\ thickness(call.self.layers[i]).nm # 0
    /\ IsQuantity(result)

\* C8: PeriodicLayerSequence(L, k).thickness equals k * LayerSequence(L).thickness,
\* and therefore the thickness of the explicit LayerSequence of L repeated k times.
C8_PeriodicThicknessIsMultiple ==
    ThicknessReturned("PeriodicLayerSequence")
        => LET one == thickness(LayerSequence(call.self.layers))
               k == call.self.num_periods
           IN  /\ result = mul(k, one)
               /\ IsQuantity(one)
                     => /\ result = Quantity(k * one.nm)
                        /\ result = thickness(LayerSequence(list_mul(call.self.layers, k)))

\* the thickness of three periods of a two-layer period was taken
C8_Witness ==
    /\ ThicknessReturned("PeriodicLayerSequence")
    /\ call.self.num_periods >= 3
    /\ Len(call.self.layers) = 2
    /\ IsQuantity(result)
    /\ result.nm # 0

\* C9: the thickness of every constructible Layer, LayerSequence and
\* PeriodicLayerSequence is non-negative.
C9_ThicknessNonNegative ==
    (call.op = "thickness" /\ IsQuantity(result)) => result.nm >= 0

\* the Layer objects of a tree, and of a list of trees
RECURSIVE LeavesOf(_)
RECURSIVE LeavesOfAll(_)
LeavesOf(self) ==
    IF self.type = "Layer" THEN {self} ELSE LeavesOfAll(self.layers)
LeavesOfAll(layers_) ==
    IF layers_ = << >> THEN {} ELSE LeavesOf(Head(layers_)) \cup LeavesOfAll(Tail(layers_))

HasNegativeThickness(layer) ==
    IsQuantity(layer.thickness) /\ layer.thickness.nm < 0

\* C10: constructing a Layer with a negative thickness fails at construction:
\* no Layer object with a negative thickness exists, and no transfer is
\* evaluated on one.
C10_NoLayerOfNegativeThickness ==
    /\ \A layer \in LeavesOfAll(layers) : ~HasNegativeThickness(layer)
    /\ call.op = "transfer" => \A layer \in LeavesOf(call.self) : ~HasNegativeThickness(layer)

\* the PeriodicLayerSequence objects of a tree, and of a list of trees
RECURSIVE PeriodicOf(_)
RECURSIVE PeriodicOfAll(_)
PeriodicOf(self) ==
    CASE self.type = "Layer" -> {}
      [] self.type = "LayerSequence" -> PeriodicOfAll(self.layers)
      [] self.type = "PeriodicLayerSequence" -> {self} \cup PeriodicOfAll(self.layers)
PeriodicOfAll(layers_) ==
    IF layers_ = << >> THEN {} ELSE PeriodicOf(Head(layers_)) \cup PeriodicOfAll(Tail(layers_))

\* a matrix that holds a power of negative exponent
HasNegativePower(matrix) ==
    \E i \in 1 .. Len(matrix) : matrix[i].kind = "power" /\ matrix[i].exponent < 0

\* C11: constructing a PeriodicLayerSequence with num_periods <= 0 fails at
\* construction: every PeriodicLayerSequence that exists has num_periods >= 1,
\* and transfer never raises the period matrix to a negative power.
C11_NumPeriodsAtLeastOne ==
    /\ \A periodic \in PeriodicOfAll(layers) : periodic.num_periods >= 1
    /\ call.op = "transfer" => ~HasNegativePower(result.matrix)

ProfileReturned(op) == call.op = op

\* C12: constructing an Erf, Exponential, Linear or Sinusoidal interface
\* profile with a negative width fails at construction: no profile object
\* with a negative width exists, and none is evaluated.
C12_NoProfileOfNegativeWidth ==
    /\ profile # NoneValue => profile.width >= 0
    /\ call.op \in {"__call__", "reflectivity"} => call.self.width >= 0

\* C13: for each of the four profile shapes, reflectivity(wavelength, direction)
\* of a profile of width 0 equals exactly 1 at every wavelength > 0 and every
\* direction.
C13_ZeroWidthReflectsFully ==
    (ProfileReturned("reflectivity") /\ call.self.width = 0)
        => IsExactly(result, 1, 1)

\* C14: no operation (__call__ or reflectivity) of a Linear or a Sinusoidal
\* profile of width 0 divides by zero.
C14_NoDivisionByZero ==
    (/\ call.op \in {"__call__", "reflectivity"}
     /\ call.self.type \in {"LinearInterfaceProfile", "SinusoidalInterfaceProfile"}
     /\ call.self.width = 0)
        => ~result.div0

\* x is a real number and 0 < x <= 1
InHalfOpenUnit(x) ==
    IsFinite(x) /\ IsPositive(x) /\ IsAtMost(x, Rational(1, 1))

\* x is not a real number, or x <= 0, or x > 1
OutsideHalfOpenUnit(x) ==
    \/ x.tag \in {"nan", "inf"}
    \/ IsZero(x)
    \/ IsNegative(x)
    \/ IsFinite(x) /\ IsPositive(np_subtract(x, Rational(1, 1)))

\* C15: for the Erf and the Exponential profile, every width >= 0, every
\* wavelength > 0 and every direction, reflectivity returns a real number in
\* (0, 1].
C15_ErfAndExponentialAttenuate ==
    (/\ ProfileReturned("reflectivity")
     /\ call.self.type \in {"ErfInterfaceProfile", "ExponentialInterfaceProfile"}
     /\ call.self.width >= 0)
        => InHalfOpenUnit(result)

\* the reflectivity of an Erf profile of positive width was evaluated off
\* grazing incidence and is less than 1
C15_Witness ==
    /\ ProfileReturned("reflectivity")
    /\ call.self.type = "ErfInterfaceProfile"
    /\ call.self.width > 0
    /\ call.direction.z.num > 0
    /\ InHalfOpenUnit(result)
    /\ ~IsExactly(result, 1, 1)

\* C15 as first stated, for every profile shape: reflectivity returns a real
\* number in (0, 1]; taken at the widths > 0 and the directions off grazing
\* incidence, where the zero quotient of C13 and C14 plays no part.
C15_ReflectivityInHalfOpenUnit ==
    (/\ ProfileReturned("reflectivity")
     /\ call.self.width > 0
     /\ call.direction.z.num > 0)
        => ~OutsideHalfOpenUnit(result)

\* x is a real number and 0 <= x <= 1
InUnit(x) ==
    IsFinite(x) /\ IsAtMost(Rational(0, 1), x) /\ IsAtMost(x, Rational(1, 1))

\* C16: for every profile shape of width > 0 and every depth z, profile(z)
\* is a fraction in [0, 1]; the Linear and the Sinusoidal profile return
\* exactly 0 below and exactly 1 above their transition region, which is
\* |z| < sqrt(3) * width for the Linear and |z| < a * width, with
\* a = pi / (pi^2 - 8) < 17/10, for the Sinusoidal profile.
C16_MixingIsAFraction ==
    (ProfileReturned("__call__") /\ call.self.width > 0)
        => LET z == call.z
               width == call.self.width
           IN  /\ InUnit(result)
               /\ call.self.type = "LinearInterfaceProfile"
                     => /\ (z < 0 /\ z * z >= 3 * width * width) => IsExactly(result, 0, 1)
                        /\ (z > 0 /\ z * z >= 3 * width * width) => IsExactly(result, 1, 1)
               /\ call.self.type = "SinusoidalInterfaceProfile"
                     => /\ 10 * z <= -17 * width => IsExactly(result, 0, 1)
                        /\ 10 * z >= 17 * width => IsExactly(result, 1, 1)

\* a Linear profile of positive width was evaluated below its transition
\* region, where the unclamped line is negative
C16_Witness ==
    /\ ProfileReturned("__call__")
    /\ call.self.type = "LinearInterfaceProfile"
    /\ call.self.width > 0
    /\ call.z < 0
    /\ call.z * call.z >= 3 * call.self.width * call.self.width
    /\ IsNegative(LinearInterfaceProfile_call_unclamped(call.self, call.z))
    /\ IsExactly(result, 0, 1)

-----------------------------------------------------------------------------
\* C17: for every layer stack and every valid (wavelength, direction,
\* polarization, normal), the matrix transfer returns has only finite entries
\* (and a determinant that is not zero): no boundary matrix among its factors
\* is scaled by an attenuation that is nan or infinite.  The stacks looked at
\* are those whose layers all have a thickness that is not negative and whose
\* periodic sequences all have at least one period.
RECURSIVE IsValidStack(_)
IsValidStack(self) ==
    CASE self.type = "Layer" -> IsQuantity(self.thickness) /\ self.thickness.nm >= 0
      [] self.type = "LayerSequence" ->
            \A i \in 1 .. Len(self.layers) : IsValidStack(self.layers[i])
      [] self.type = "PeriodicLayerSequence" ->
            /\ self.num_periods >= 1
            /\ \A i \in 1 .. Len(self.layers) : IsValidStack(self.layers[i])

IsFiniteFactor(factor) ==
    factor.kind = "refraction" => refraction_attenuation(factor).tag \notin {"nan", "inf"}

C17_TransferMatrixIsFinite ==
    (call.op = "transfer" /\ IsValidStack(call.self))
        => \A i \in 1 .. Len(result.matrix) : IsFiniteFactor(result.matrix[i])

-----------------------------------------------------------------------------
\* a stack with no layer in it
RECURSIVE IsEmptyStack(_)
IsEmptyStack(self) ==
    /\ self.type = "LayerSequence"
    /\ \A i \in 1 .. Len(self.layers) : IsEmptyStack(self.layers[i])

\* the efficiency of an empty stack was asked for at normal incidence from an
\* ambient of index 1 onto a substrate of index 3/2 with a sharp interface
BareSubstrateCalled ==
    /\ call.op = "multilayer_efficiency"
    /\ IsEmptyStack(call.self)
    /\ call.direction = Fraction(0, 1)
    /\ call.n = Complex(1, 0)
    /\ call.n_substrate = ComplexFraction(3, 0, 2)
    /\ call.profile_interface = NoneValue

\* C20: with an empty layer stack at normal incidence and the real indices
\* n1 = 1 of the ambient and n2 = 3/2 of the substrate, the power reflectivity
\* is ((n1 - n2) / (n1 + n2))^2 = 1/25 = 0.04.
C20_BareSubstrateReflectivity ==
    BareSubstrateCalled => IsExactly(result.reflected, 1, 25)

\* the bare substrate reflected 1/25 and let 24/25 through
C20_Witness ==
    /\ BareSubstrateCalled
    /\ IsExactly(result.reflected, 1, 25)
    /\ IsExactly(result.transmitted, 24, 25)

-----------------------------------------------------------------------------
\* a stack whose layers have an index without an imaginary part at the
\* wavelength, and no interface profile of their own
RECURSIVE IsLossless(_, _)
IsLossless(self, wavelength) ==
    IF self.type = "Layer"
    THEN IsRealIndex(Layer_n(self, wavelength)) /\ self.interface = NoneValue
    ELSE \A i \in 1 .. Len(self.layers) : IsLossless(self.layers[i], wavelength)

\* a number that is known not to be 1
DiffersFromOne(x) ==
    \/ x.tag \in {"nan", "inf"}
    \/ IsFinite(x) /\ (RatLess(x.hi.v, Rat(1, 1)) \/ RatLess(Rat(1, 1), x.lo.v))

\* C18: for a stack whose layers, ambient and substrate all have purely real
\* indices of refraction, multilayer_efficiency returns reflected and
\* transmitted fractions whose sum is 1.
C18_LosslessConservesEnergy ==
    (/\ call.op = "multilayer_efficiency"
     /\ IsValidStack(call.self)
     /\ IsLossless(call.self, call.wavelength)
     /\ IsRealIndex(call.n)
     /\ IsRealIndex(call.n_substrate))
        => ~DiffersFromOne(np_add(result.reflected, result.transmitted))

-----------------------------------------------------------------------------
\* the quantum yield the documentation of quantum_yield_ideal defines for a
\* photon of the energy e
QuantumYieldDocumented(e) ==
    IF RatLess(e, energy_bandgap) THEN Rat(0, 1)
    ELSE IF RatLess(e, energy_electron_hole) THEN Rat(1, 1)
    ELSE RatMul(energy_electron_hole, RatInv(e))

\* C21: quantum_yield_ideal returns, for the photon energy e, 0 when
\* 0 <= e < 1.12 eV, 1 when 1.12 eV <= e < 3.65 eV (so 1 at e = 1.12 eV
\* exactly), and 3.65 eV / e when e >= 3.65 eV.
C21_QuantumYieldAsDocumented ==
    call.op = "quantum_yield_ideal"
        => result = QuantumYieldDocumented(spectral_eV(call.wavelength))

\* C22: in LayerSequence([A, B]).transfer, A and B layers, the refraction
\* matrix of the boundary between A and B (the third factor of the product:
\* refraction into A, propagation in A, refraction into B, propagation in B)
\* carries the interface profile of A, the left layer.
C22_BoundaryCarriesLeftProfile ==
    (/\ TransferReturned("LayerSequence")
     /\ Len(call.self.layers) = 2
     /\ call.self.layers[1].type = "Layer"
     /\ call.self.layers[2].type = "Layer")
        => /\ result.matrix[3].kind = "refraction"
           /\ result.matrix[3].n_left = Layer_n(call.self.layers[1], call.wavelength)
           /\ result.matrix[3].n_right = Layer_n(call.self.layers[2], call.wavelength)
           /\ result.matrix[3].interface = call.self.layers[1].interface

\* the refraction and propagation factors of a matrix, those of the base of a
\* symbolic power included
RECURSIVE LeafFactors(_)
LeafFactors(matrix) ==
    UNION { IF matrix[i].kind = "power" THEN LeafFactors(matrix[i].base) ELSE { matrix[i] } :
            i \in 1 .. Len(matrix) }

\* C23: every refraction and propagation matrix that a transfer call returns
\* the product of, at whatever depth of the stack its layer lies, was built
\* from the wavelength and the normal (and, a refraction, the polarization) of
\* the top-level call: the children are all called with them, and only n and
\* direction change from child to child.
C23_FrameIsHandedDown ==
    call.op = "transfer"
        => \A factor \in LeafFactors(result.matrix) :
              /\ factor.wavelength = call.wavelength
              /\ factor.normal = call.normal
              /\ factor.kind = "refraction" => factor.polarization = call.polarization

\* a sequence that holds a periodic sequence of two or more periods of a layer
\* was evaluated at oblique incidence, and the layer was entered with two
\* different directions and indices
C23_Witness ==
    /\ TransferReturned("LayerSequence")
    /\ Len(call.self.layers) = 1
    /\ call.self.layers[1].type = "PeriodicLayerSequence"
    /\ call.self.layers[1].num_periods >= 2
    /\ Len(call.self.layers[1].layers) = 1
    /\ call.direction.num > 0
    /\ Len(result.matrix) >= 4
    /\ result.matrix[1].direction_left # result.matrix[3].direction_left
    /\ result.matrix[1].n_left # result.matrix[3].n_left

PeriodFrom(state) ==
    transfer(LayerSequence(call.self.layers), call.wavelength, state.direction,
             call.polarization, state.n, call.normal)

\* C25: in PeriodicLayerSequence.transfer, the second evaluation of the
\* period, made from the (n, direction) the first evaluation returned, returns
\* that same (n, direction) again, so that a third evaluation, the one every
\* later period would need, returns what the second returned, matrix included.
C25_StateConvergedAfterOnePeriod ==
    TransferReturned("PeriodicLayerSequence")
        => /\ PeriodFrom(StartAtCall).n = StartAtCall.n
           /\ PeriodFrom(StartAtCall).direction = StartAtCall.direction
           /\ PeriodFrom(PeriodFrom(StartAtCall)) = PeriodFrom(StartAtCall)

\* a periodic sequence of two different layers was evaluated at oblique
\* incidence: the first evaluation of the period changed n and the direction,
\* and the matrix of the second evaluation is not that of the first
C25_Witness ==
    /\ TransferReturned("PeriodicLayerSequence")
    /\ Len(call.self.layers) = 2
    /\ call.self.layers[1] # call.self.layers[2]
    /\ call.self.num_periods >= 2
    /\ call.direction.num > 0
    /\ StartAtCall.n # call.n
    /\ StartAtCall.direction # call.direction
    /\ PeriodFrom(StartAtCall).matrix # StartAtCall.matrix

\* the number of binary digits of k
RECURSIVE BitLength(_)
BitLength(k) == IF k = 0 THEN 0 ELSE 1 + BitLength(k \div 2)

\* C26: one evaluation of PeriodicLayerSequence.transfer calls the transfer of
\* every layer of the period exactly twice, whatever num_periods is, and
\* performs at most the products of two evaluations of the period, one more,
\* and two for every binary digit of num_periods: a number that grows with the
\* logarithm of num_periods.
C26_TwoEvaluationsAndLogarithmicProducts ==
    (call.op = "transfer_count" /\ call.self.type = "PeriodicLayerSequence")
        => /\ Len(result.children) = Len(call.self.layers)
           /\ \A i \in 1 .. Len(call.self.layers) : result.children[i] = 2
           /\ result.matmuls
                 <= 2 * transfer_count(LayerSequence(call.self.layers)).matmuls + 1
                    + 2 * BitLength(call.self.num_periods)

\* a periodic sequence of two layers and seventeen or more periods was
\* evaluated, with fewer products than it has periods
C26_Witness ==
    /\ call.op = "transfer_count"
    /\ call.self.type = "PeriodicLayerSequence"
    /\ Len(call.self.layers) = 2
    /\ call.self.layers[1].type = "Layer"
    /\ call.self.layers[2].type = "Layer"
    /\ call.self.num_periods >= 17
    /\ result.children = << 2, 2 >>
    /\ result.matmuls < call.self.num_periods

FitProperties == {"thickness_oxide", "thickness_implant", "cce_backsurface"}

\* C27: for a sensor material the fit has run at most once, and it has run
\* exactly if its result is stored; an access to thickness_oxide,
\* thickness_implant or cce_backsurface returns the entry of the stored fit,
\* which is the fit of the measured quantum efficiency of the object, and an
\* access made when the fit was already stored leaves the object as it was,
\* run counter included.
C27_FitRunsAtMostOnce ==
    sensor # NoneValue
        => /\ sensor.fits <= 1
           /\ sensor.fits = 0 <=> sensor.fit = NoneValue
           /\ sensor.fit # NoneValue
                 => sensor.fit = scipy_optimize_minimize(sensor.quantum_efficiency_measured)
           /\ call.op \in FitProperties
                 => /\ sensor.fits = 1
                    /\ result = sensor.fit[call.op]
                    /\ call.self.fit # NoneValue => sensor = call.self

\* cce_backsurface was read from an object whose fit an earlier access had
\* stored already
C27_Witness ==
    /\ call.op = "cce_backsurface"
    /\ call.self.fit # NoneValue
    /\ call.self.fits = 1
    /\ sensor = call.self
    /\ result = sensor.fit.cce_backsurface

\* C28: AbstractBackilluminatedCCDMaterial.charge_collection_efficiency hands
\* to charge_collection_efficiency the cosine of the direction of the rays
\* inside the substrate, the one quantum_efficiency_effective hands to it for
\* the same rays and normal.
C28_CosineInsideSubstrate ==
    call.op = "charge_collection_efficiency"
        => Material_cos_incidence(call.rays, call.normal)
              = quantum_efficiency_effective_direction_substrate(
                    call.rays.wavelength, call.rays.direction, Material_n(call.rays))

\* C29: for a sequence xs + [LayerSequence(ys)] + zs, transfer returns the
\* n, the direction and the matrix that transfer of the flattened sequence
\* xs + ys + zs returns at the same arguments, whatever the lengths of xs, ys
\* and zs are, 0 and 1 included.
C29_NestingIsFlattening ==
    TransferReturned("LayerSequence")
        => \A i \in 1 .. Len(call.self.layers) :
              call.self.layers[i].type = "LayerSequence"
                  => result = TransferAtCall(
                                  LayerSequence(
                                      SubSeq(call.self.layers, 1, i - 1)
                                      \o call.self.layers[i].layers
                                      \o SubSeq(call.self.layers, i + 1,
                                                Len(call.self.layers))))

\* a sequence of a layer, a nested sequence of two different layers and
\* another layer was evaluated at oblique incidence; the nested sequence was
\* left in another state than it was entered in
C29_Witness ==
    /\ TransferReturned("LayerSequence")
    /\ Len(call.self.layers) = 3
    /\ call.self.layers[1].type = "Layer"
    /\ call.self.layers[2].type = "LayerSequence"
    /\ call.self.layers[3].type = "Layer"
    /\ Len(call.self.layers[2].layers) = 2
    /\ call.self.layers[2].layers[1] # call.self.layers[2].layers[2]
    /\ call.direction.num > 0
    /\ Len(result.matrix) = 8
    /\ result.matrix[3].n_left # result.matrix[7].n_left
    /\ result.matrix[3].direction_left # result.matrix[7].direction_left

\* the object with Quantity(0) for every absent thickness of a layer
RECURSIVE AbsentAsZero(_)
AbsentAsZero(self) ==
    IF self.type = "Layer"
    THEN IF self.thickness = NoneValue THEN [self EXCEPT !.thickness = Quantity(0)] ELSE self
    ELSE [self EXCEPT !.layers = [i \in 1 .. Len(self.layers) |-> AbsentAsZero(self.layers[i])]]

\* C30: the thickness of a LayerSequence or PeriodicLayerSequence is a length
\* also when layers in it have no thickness (None), and those layers count as
\* zero in it.
C30_AbsentThicknessCountsAsZero ==
    (call.op = "thickness" /\ call.self.type # "Layer")
        => /\ IsQuantity(result)
           /\ result = thickness(AbsentAsZero(call.self))

====
